---------------------------- MODULE Spec2Model ----------------------------
(***************************************************************************)
(* Model of the multiplayer snake simulation of web/server/game_manager.py *)
(* (class GameManager) and of the tables of web/server/models.py.          *)
(*                                                                         *)
(* Conventions.                                                            *)
(*  - Simulated times (dt, elapsed_time, timers, current_speed) are        *)
(*    integers in microseconds; the code uses float seconds and float      *)
(*    milliseconds.  The wall clock, the timestamps taken from it and      *)
(*    move_accumulator are integers in thirds of a microsecond, so that    *)
(*    the loop's tick of 1/30 s is the integer TICK_RATE.                  *)
(*  - A cell is <<x, y>>.                                                  *)
(*  - `state` is the GameState aggregate (self.state); a player's snake    *)
(*    fields are kept in the player's record.                              *)
(*  - random.* calls are nondeterministic choices: an operation that draws *)
(*    random numbers is modelled by the SET of states it can produce.      *)
(***************************************************************************)
EXTENDS Integers, Sequences, FiniteSets, TLC

VARIABLES
    room,             \* the Room settings the GameManager was constructed with
    state,            \* self.state : GameState
    now,              \* time.time(), the wall clock
    pc,               \* position of run_game_loop: "run", "respawn", "done"
                      \* or "cancelled"
    move_accumulator, \* local of run_game_loop
    loop_start,       \* local of run_game_loop
    iterations,       \* iterations of the loop of run_game_loop so far
    stalls,           \* times the wall clock ran ahead so far
    broadcasts,       \* the messages run_game_loop has broadcast so far:
                      \* their number by type, and the type of the last one
    lobby             \* the ConnectionManager's view of the room: the room's
                      \* game_started flag, the humans' PlayerState, the
                      \* GameManagers created for the room with their tasks,
                      \* the one registered in game_managers, and the one
                      \* whose start countdown the host's handler sleeps in

vars == <<room, state, now, pc, move_accumulator, loop_start, iterations,
          stalls, broadcasts, lobby>>

-----------------------------------------------------------------------------
(* Bounds of the model *)

\* Width and height of the map, hence of one quadrant (MAP_SIZES gives
\* 25x18 .. 60x36; the model scales the map down).
QW == 8
QH == 8
\* Iterations of the loop of run_game_loop explored in one game (three
\* iterations make one update at the base speed).
MaxIterations == 12
\* The animals get_random_food draws from: the first NumKinds of KindOrder.
NumKinds == 2
\* random.randint(lo, hi) of _spawn_food draws from lo .. min(hi, lo + SpawnSpan).
SpawnSpan == 2
\* Number of times the wall clock runs ahead of the simulation in one game.
MaxStalls == 1
\* Wall generation: randint(lo, hi) draws a wall's anchor from
\* lo .. min(hi, lo + WallPosSpan) and its size from lo .. min(hi, lo + WallSizeSpan).
WallPosSpan == 1
WallSizeSpan == 1
\* The wall clock's reading when the game is set up.
StartTime == 3000000
\* The High-Score games with respawns: the width and height of the map, the
\* iterations of the loop explored, and the deaths a player brings along from
\* the earlier games of the room (death_count is never reset).
RespawnW == 5
RespawnH == 5
RespawnIterations == 18
MaxPriorDeaths == 6
MaxWalls == 1            \* distinct walls in one generated layout
\* The dense layouts: randint(lo, hi) draws from lo .. min(hi, lo + DenseSpan).
DenseSpan == 0
WallsW == 12             \* map of the walled rooms
WallsH == 10
DenseH == 12             \* height of the map of the dense rooms
\* The games of the Survival rooms: the map of one quadrant and the loop
\* iterations explored (the first tail decay is due after 180 of them).
SurvivalW == 4
SurvivalH == 2
SurvivalIterations == 181
WallsIterations == 3     \* loop iterations of the walled rooms
\* Loop iterations of the games played between moderate barriers
BarrierIterations == 12
\* Size of a quadrant and loop iterations of the games of a "world_class" AI
AiW == 7
AiH == 7
AiIterations == 24
\* Loop iterations of the High-Score games played to their time limit of
\* 30 s: more than the limit takes
TimedIterations == 910
\* Size of a quadrant of the High-Score games of two humans, and the loop
\* iterations during which they send no direction message
FinalW == 5
FinalH == 6
IdleIterations == 891
\* Loop iterations of the Survival games of two AI players (a combo lasts
\* for 60 of them)
StreakIterations == 66
DecayIterations == 400   \* loop iterations of the games with tail decay
CircuitIterations == 30  \* loop iterations of the games of left turns
JoinSteps == 4           \* joins and leaves of a room before its game starts
JoinAi == 1              \* AI players of the rooms with joins and leaves
JoinIterations == 6      \* loop iterations of their games
PauseIterations == 12    \* loop iterations of the games with pauses
LiveIterations == 400    \* loop iterations of the Survival games played to their end
MaxShrinks == 3          \* shrinks that empty the largest quadrant of those games
GuardIterations == 30    \* loop iterations of the games of the AI players
\* Map and loop iterations of the games with speed steps
SpeedW == 6
SpeedH == 7
SpeedSingleIterations == 31
SpeedSurvivalIterations == 460
SpeedHighScoreIterations == 1810
\* The lobby: GameManagers created for one room, and iterations counted for
\* the loop of one GameManager
MaxManagers == 2
MaxTicks == 2
\* Loop iterations of the games of five players on four quadrants
SharedIterations == 9

-----------------------------------------------------------------------------
(* Tables of models.py *)

None == "none"

Directions == {"up", "down", "left", "right"}

\* GameManager._OPPOSITE
Opposite(d) ==
    CASE d = "up" -> "down"
      [] d = "down" -> "up"
      [] d = "left" -> "right"
      [] d = "right" -> "left"

\* GameManager._DIR_VECTORS
DirVector(d) ==
    CASE d = "up" -> <<0, -1>>
      [] d = "down" -> <<0, 1>>
      [] d = "left" -> <<-1, 0>>
      [] d = "right" -> <<1, 0>>

\* ANIMAL_TYPES: value, health, cells and category of every animal.
ANIMAL_TYPES ==
    [mouse     |-> [value |-> 75,  health |-> 1, category |-> "small",
                    cells |-> {<<0, 0>>}],
     frog      |-> [value |-> 85,  health |-> 1, category |-> "small",
                    cells |-> {<<0, 0>>}],
     bug       |-> [value |-> 65,  health |-> 1, category |-> "small",
                    cells |-> {<<0, 0>>}],
     cricket   |-> [value |-> 65,  health |-> 1, category |-> "small",
                    cells |-> {<<0, 0>>}],
     worm      |-> [value |-> 60,  health |-> 1, category |-> "small",
                    cells |-> {<<0, 0>>}],
     butterfly |-> [value |-> 100, health |-> 1, category |-> "small",
                    cells |-> {<<0, 0>>}],
     spider    |-> [value |-> 70,  health |-> 1, category |-> "small",
                    cells |-> {<<0, 0>>}],
     bee       |-> [value |-> 80,  health |-> 1, category |-> "small",
                    cells |-> {<<0, 0>>}],
     ladybug   |-> [value |-> 70,  health |-> 1, category |-> "small",
                    cells |-> {<<0, 0>>}],
     rabbit    |-> [value |-> 90,  health |-> 2, category |-> "medium",
                    cells |-> {<<0, 0>>, <<1, 0>>}],
     fish      |-> [value |-> 80,  health |-> 2, category |-> "medium",
                    cells |-> {<<0, 0>>, <<1, 0>>}],
     lizard    |-> [value |-> 120, health |-> 3, category |-> "medium",
                    cells |-> {<<0, 0>>, <<1, 0>>, <<2, 0>>}],
     turtle    |-> [value |-> 105, health |-> 3, category |-> "medium",
                    cells |-> {<<0, 0>>, <<1, 0>>, <<0, 1>>}],
     duck      |-> [value |-> 120, health |-> 3, category |-> "medium",
                    cells |-> {<<0, 0>>, <<1, 0>>, <<2, 0>>}],
     bird      |-> [value |-> 160, health |-> 4, category |-> "large",
                    cells |-> {<<0, 0>>, <<1, 0>>, <<0, 1>>, <<1, 1>>}],
     fox       |-> [value |-> 180, health |-> 4, category |-> "large",
                    cells |-> {<<0, 0>>, <<1, 0>>, <<2, 0>>, <<0, 1>>}],
     wolf      |-> [value |-> 200, health |-> 5, category |-> "large",
                    cells |-> {<<1, 0>>, <<0, 1>>, <<1, 1>>, <<2, 1>>, <<1, 2>>}],
     deer      |-> [value |-> 160, health |-> 4, category |-> "large",
                    cells |-> {<<0, 0>>, <<0, 1>>, <<0, 2>>, <<0, 3>>}],
     pig       |-> [value |-> 160, health |-> 4, category |-> "large",
                    cells |-> {<<0, 0>>, <<1, 0>>, <<0, 1>>, <<1, 1>>}],
     tiger     |-> [value |-> 300, health |-> 5, category |-> "huge",
                    cells |-> {<<0, 0>>, <<1, 0>>, <<2, 0>>,
                               <<0, 1>>, <<1, 1>>, <<2, 1>>}],
     lion      |-> [value |-> 350, health |-> 5, category |-> "huge",
                    cells |-> {<<0, 0>>, <<1, 0>>, <<2, 0>>,
                               <<0, 1>>, <<1, 1>>, <<2, 1>>}],
     bear      |-> [value |-> 280, health |-> 5, category |-> "huge",
                    cells |-> {<<0, 0>>, <<1, 0>>, <<0, 1>>,
                               <<1, 1>>, <<0, 2>>, <<1, 2>>}],
     crocodile |-> [value |-> 260, health |-> 5, category |-> "huge",
                    cells |-> {<<0, 0>>, <<1, 0>>, <<2, 0>>,
                               <<3, 0>>, <<4, 0>>, <<5, 0>>}],
     hippo     |-> [value |-> 375, health |-> 5, category |-> "huge",
                    cells |-> {<<0, 0>>, <<1, 0>>, <<2, 0>>, <<3, 0>>,
                               <<0, 1>>, <<1, 1>>, <<2, 1>>, <<3, 1>>}],
     elephant  |-> [value |-> 400, health |-> 5, category |-> "huge",
                    cells |-> {<<0, 0>>, <<1, 0>>, <<0, 1>>, <<1, 1>>,
                               <<0, 2>>, <<1, 2>>, <<0, 3>>, <<1, 3>>}]]

\* The order in which the model admits animals to the random draw (one small
\* animal, then one of every multi-hit category, then the rest).
KindOrder ==
    <<"mouse", "lizard", "turtle", "rabbit", "bird", "tiger", "butterfly",
      "frog", "bug", "cricket", "worm", "spider", "bee", "ladybug", "fish",
      "duck", "fox", "wolf", "deer", "pig", "lion", "bear", "crocodile",
      "hippo", "elephant">>

Min(a, b) == IF a < b THEN a ELSE b
Max(a, b) == IF a > b THEN a ELSE b

\* The animals get_random_food can return (every weight is positive, so
\* every animal of ANIMAL_TYPES can be drawn); bounded by NumKinds.
get_random_food == {KindOrder[i] : i \in 1..Min(NumKinds, Len(KindOrder))}

\* FOOD_HIT_RECOVERY, in microseconds; .get(category, 0.0)
HIT_RECOVERY_SMALL == 0
HIT_RECOVERY_MEDIUM == 800000
HIT_RECOVERY_LARGE == 1500000
HIT_RECOVERY_HUGE == 2500000

FOOD_HIT_RECOVERY(category) ==
    CASE category = "small" -> HIT_RECOVERY_SMALL
      [] category = "medium" -> HIT_RECOVERY_MEDIUM
      [] category = "large" -> HIT_RECOVERY_LARGE
      [] category = "huge" -> HIT_RECOVERY_HUGE
      [] OTHER -> 0

\* BARRIER_CONFIGS[density]["multiplier"], in hundredths (1.0, 1.25, 1.5, 2.0
\* are exact binary fractions, so int(pts * multiplier) is exact).
BarrierMultiplier100(density) ==
    CASE density = "sparse" -> 125
      [] density = "moderate" -> 150
      [] density = "dense" -> 200
      [] OTHER -> 100

\* BARRIER_CONFIGS[density]["wall_count"]
BarrierWallCount(density) ==
    CASE density = "sparse" -> 4
      [] density = "moderate" -> 8
      [] density = "dense" -> 12
      [] OTHER -> 0

\* GameState defaults, times in microseconds
BASE_SPEED == 100000
COMBO_WINDOW == 2000000
DECAY_MIN_LENGTH == 3
SHRINK_INTERVAL == 30000000
SHRINK_AMOUNT == 1
SPEED_RAMP_INTERVAL == 15000000
HS_SPEED_INTERVAL == 60000000
MIN_SPEED == 50000


-----------------------------------------------------------------------------
(* Quadrants and walls *)

\* QuadrantBounds(x_min, x_max, y_min, y_max)
QuadrantBounds(x0, x1, y0, y1) ==
    [x_min |-> x0, x_max |-> x1, y_min |-> y0, y_max |-> y1]

\* QuadrantBounds.contains
Contains(b, pos) ==
    /\ b.x_min <= pos[1] /\ pos[1] < b.x_max
    /\ b.y_min <= pos[2] /\ pos[2] < b.y_max

\* GameManager._setup_quadrants: the bounds of quadrants 0..3 by player count
SetupQuadrants(num_players, w, h) ==
    LET all == [q \in 0..3 |->
                  CASE q = 0 -> QuadrantBounds(0, w, 0, h)
                    [] q = 1 -> QuadrantBounds(w, w * 2, 0, h)
                    [] q = 2 -> QuadrantBounds(0, w, h, h * 2)
                    [] q = 3 -> QuadrantBounds(w, w * 2, h, h * 2)]
        n == IF num_players \in 1..3 THEN num_players ELSE 4
    IN  [q \in 0..(n - 1) |-> all[q]]

\* (bounds.x_min + bounds.x_max) // 2, (bounds.y_min + bounds.y_max) // 2
Center(b) == <<(b.x_min + b.x_max) \div 2, (b.y_min + b.y_max) \div 2>>

\* Wall(Position(x, y), w, h)
Wall(x, y, w, h) == [x |-> x, y |-> y, width |-> w, height |-> h]

\* Wall.get_all_positions
WallCells(wall) ==
    {<<wall.x + dx, wall.y + dy>> :
        dx \in 0..(wall.width - 1), dy \in 0..(wall.height - 1)}

\* GameManager._get_wall_positions (the cache is rebuilt from the walls; the
\* walls never change after setup_game, so the cache always equals this set)
WallPositions(walls) == UNION {WallCells(wall) : wall \in walls}

\* GameManager._wall_overlaps_zone
WallOverlapsZone(x, y, w, h, zone) ==
    ~(\/ x + w <= zone[1] \/ x >= zone[3]
      \/ y + h <= zone[2] \/ y >= zone[4])

\* GameManager._wall_overlaps_existing
WallOverlapsExisting(x, y, w, h, existing, margin) ==
    \E wall \in existing :
        ~(\/ x + w + margin <= wall.x
          \/ x >= wall.x + wall.width + margin
          \/ y + h + margin <= wall.y
          \/ y >= wall.y + wall.height + margin)

Adjacent(a, b) ==
    \/ a[1] = b[1] /\ (a[2] = b[2] + 1 \/ a[2] = b[2] - 1)
    \/ a[2] = b[2] /\ (a[1] = b[1] + 1 \/ a[1] = b[1] - 1)

\* The 4-neighbour flood fill shared by _check_wall_connectivity and
\* _flood_fill_count: the cells of `free` reachable from the frontier.
RECURSIVE Flood(_, _, _)
Flood(frontier, visited, free) ==
    IF frontier = {} THEN visited
    ELSE LET nxt == {c \in free \ visited : \E f \in frontier : Adjacent(c, f)}
         IN  Flood(nxt, visited \cup nxt, free)

BoundsCells(b) ==
    {<<x, y>> : x \in b.x_min..(b.x_max - 1), y \in b.y_min..(b.y_max - 1)}

\* The set `visited` of _check_wall_connectivity
ReachableFromCenter(b, walls) ==
    LET free == BoundsCells(b) \ WallPositions(walls)
        c == Center(b)
    IN  IF c \in free THEN Flood({c}, {c}, free) ELSE {}

\* _check_wall_connectivity with a flood fill that walks through the walls
CheckWallConnectivityThroughWalls(b, walls) ==
    2 * Cardinality(ReachableFromCenter(b, {}))
        >= (b.x_max - b.x_min) * (b.y_max - b.y_min)

\* GameManager._check_wall_connectivity: len(visited) >= total_cells * 0.5
CheckWallConnectivity(b, walls) ==
    2 * Cardinality(ReachableFromCenter(b, walls))
        >= (b.x_max - b.x_min) * (b.y_max - b.y_min)

\* random.randint(lo, hi), the draw bounded to at most span + 1 values
RandInt(lo, hi, span) == lo..Min(hi, lo + span)

\* The sets with at most k elements of D, k >= 0
RECURSIVE UpTo(_, _)
UpTo(D, k) ==
    IF k = 0 THEN {{}}
    ELSE LET less == UpTo(D, k - 1)
         IN  less \cup {S \cup {d} : S \in less, d \in D}

\* The (w, h) one wall of _generate_sparse_walls can get: w = randint(2, 4),
\* h = 1 or randint(1, 2), then possibly swapped.
SparseShapes ==
    LET drawn == {<<w, h>> : w \in RandInt(2, 4, WallSizeSpan),
                             h \in {1} \cup RandInt(1, 2, WallSizeSpan)}
    IN  drawn \cup {<<s[2], s[1]>> : s \in drawn}

\* The walls one iteration of _generate_sparse_walls can append
SparseDraws(b) ==
    UNION {{Wall(x, y, s[1], s[2]) :
               x \in RandInt(b.x_min + 3, b.x_max - s[1] - 3, WallPosSpan),
               y \in RandInt(b.y_min + 3, b.y_max - s[2] - 3, WallPosSpan)} :
           s \in SparseShapes}

\* GameManager._generate_sparse_walls: wall_count walls, drawn independently
\* (a wall drawn twice occupies the same cells once; at most MaxWalls of the
\* draws differ)
GenerateSparseWalls(b, wall_count) ==
    IF wall_count = 0 THEN {{}}
    ELSE UpTo(SparseDraws(b), Min(wall_count, MaxWalls)) \ {{}}

\* safe_zone of _generate_walls_random
SafeZone(b) ==
    LET c == Center(b) IN <<c[1] - 3, c[2] - 3, c[1] + 3, c[2] + 3>>

\* The (w, h) of one attempt of the moderate branch: w = randint(2, 4),
\* h = randint(1, 3), then possibly swapped.
ModerateShapes ==
    LET drawn == {<<w, h>> : w \in RandInt(2, 4, WallSizeSpan),
                             h \in RandInt(1, 3, WallSizeSpan)}
    IN  drawn \cup {<<s[2], s[1]>> : s \in drawn}

\* Every wall one attempt of the moderate branch can draw
ModerateDraws(b) ==
    UNION {{Wall(x, y, s[1], s[2]) :
               x \in RandInt(b.x_min + 2, b.x_max - s[1] - 2, WallPosSpan),
               y \in RandInt(b.y_min + 2, b.y_max - s[2] - 2, WallPosSpan)} :
           s \in ModerateShapes}

\* An attempt of the moderate branch is dropped (continue) for this draw
ModerateRejects(b, d, placed) ==
    \/ WallOverlapsZone(d.x, d.y, d.width, d.height, SafeZone(b))
    \/ WallOverlapsExisting(d.x, d.y, d.width, d.height, placed, 2)

\* The placed_walls the rejection sampling can build from `placed` with
\* `room_left` walls still wanted
RECURSIVE ModeratePlace(_, _, _)
ModeratePlace(b, placed, room_left) ==
    IF room_left = 0 THEN {placed}
    ELSE LET ok == {d \in ModerateDraws(b) : ~ModerateRejects(b, d, placed)}
         IN  {placed} \cup
             UNION {ModeratePlace(b, placed \cup {d}, room_left - 1) : d \in ok}

\* _generate_walls_random, moderate branch: the loop ends with wall_count
\* walls, or earlier when its wall_count * 10 attempts are used up, which
\* takes a draw that is rejected (at most MaxWalls walls get placed).
GenerateModerateWalls(b, wall_count) ==
    {placed \in ModeratePlace(b, {}, Min(wall_count, MaxWalls)) :
        \/ Cardinality(placed) = wall_count
        \/ \E d \in ModerateDraws(b) : ModerateRejects(b, d, placed)}

\* The segments (at most one on each side of the gap) that line i of n of
\* the dense branch can append; `horizontal` tells the two loops apart.
DenseLine(b, i, n, horizontal) ==
    LET lo == IF horizontal THEN b.y_min ELSE b.x_min    \* across the lines
        hi == IF horizontal THEN b.y_max ELSE b.x_max
        a_lo == IF horizontal THEN b.x_min ELSE b.y_min  \* along the line
        a_hi == IF horizontal THEN b.x_max ELSE b.y_max
        spacing == ((hi - lo) - 6) \div (n + 1)
        Seg(at, start, len) ==
            IF len >= 2
            THEN {IF horizontal THEN Wall(start, at, len, 1)
                                ELSE Wall(at, start, 1, len)}
            ELSE {}
    IN  UNION {LET at == lo + 3 + (i + 1) * spacing + offset
               IN  IF lo + 3 < at /\ at < hi - 3
                   THEN UNION {{Seg(at, a_lo + 2, gap_start - a_lo - 2)
                                \cup Seg(at, gap_start + gap_size,
                                         a_hi - (gap_start + gap_size) - 2) :
                                   gap_start \in RandInt(a_lo + 4,
                                                         a_hi - gap_size - 4,
                                                         DenseSpan)} :
                               gap_size \in RandInt(3, 5, DenseSpan)}
                   ELSE {{}} :
               offset \in RandInt(-1, 1, DenseSpan)}

\* The walls that lines i .. n - 1 of one loop of the dense branch can append
RECURSIVE DenseLines(_, _, _, _)
DenseLines(b, i, n, horizontal) ==
    IF i >= n THEN {{}}
    ELSE {one \cup rest : one \in DenseLine(b, i, n, horizontal),
                          rest \in DenseLines(b, i + 1, n, horizontal)}

\* What one random block of the dense branch appends: the block, or nothing
\* when it overlaps the safe zone
DenseBlock(b) ==
    UNION {UNION {{IF WallOverlapsZone(x, y, w, h, SafeZone(b))
                   THEN {} ELSE {Wall(x, y, w, h)} :
                      x \in RandInt(b.x_min + 3, b.x_max - w - 3, DenseSpan),
                      y \in RandInt(b.y_min + 3, b.y_max - h - 3, DenseSpan)} :
                  h \in RandInt(2, 3, DenseSpan)} :
           w \in RandInt(2, 3, DenseSpan)}

\* The walls that `left` more random blocks can append
RECURSIVE DenseBlocks(_, _)
DenseBlocks(b, left) ==
    IF left = 0 THEN {{}}
    ELSE {one \cup rest : one \in DenseBlock(b),
                          rest \in DenseBlocks(b, left - 1)}

\* _generate_walls_random, dense branch: 2-4 horizontal lines and 1-3
\* vertical lines, each with a gap, then 1-3 blocks
GenerateDenseWalls(b) ==
    LET hs == UNION {DenseLines(b, 0, n, TRUE) : n \in RandInt(2, 4, DenseSpan)}
        vs == UNION {DenseLines(b, 0, n, FALSE) : n \in RandInt(1, 3, DenseSpan)}
        bs == UNION {DenseBlocks(b, n) : n \in RandInt(1, 3, DenseSpan)}
    IN  {h \cup v \cup k : h \in hs, v \in vs, k \in bs}

\* GameManager._generate_walls_random
GenerateWallsRandom(b, density, wall_count) ==
    CASE density = "sparse" -> GenerateSparseWalls(b, wall_count)
      [] density = "moderate" -> GenerateModerateWalls(b, wall_count)
      [] density = "dense" -> GenerateDenseWalls(b)
      [] OTHER -> {{}}

\* random.randint raises ValueError on an empty range: setup_game cannot
\* complete on a quadrant this small (no MAP_SIZES entry is).
WallsCanRaise(b, density) ==
    LET w == b.x_max - b.x_min
        h == b.y_max - b.y_min
    IN  CASE density = "sparse" -> w < 10 \/ h < 10
          [] density = "moderate" -> w < 8 \/ h < 8
          [] density = "dense" -> w < 13 \/ h < 13
          [] OTHER -> FALSE

\* GameManager._generate_walls: every [walls, fallback] it can leave in the
\* quadrant; fallback says that the 5 attempts failed and the sparse
\* pattern of max(2, wall_count // 2) walls was installed.
GenerateWalls(b, density) ==
    LET wall_count == BarrierWallCount(density)
        tries == GenerateWallsRandom(b, density, wall_count)
    IN  IF wall_count = 0 THEN {[walls |-> {}, fallback |-> FALSE]}
        ELSE {[walls |-> ws, fallback |-> FALSE] :
                 ws \in {t \in tries : CheckWallConnectivity(b, t)}}
             \cup
             IF \E t \in tries : ~CheckWallConnectivity(b, t)
             THEN {[walls |-> ws, fallback |-> TRUE] :
                      ws \in GenerateSparseWalls(b, Max(2, wall_count \div 2))}
             ELSE {}

-----------------------------------------------------------------------------
(* Players, snakes and food *)

NoWinner == 0      \* winner_id = None
NoTime == -1       \* death_time = None

\* Food.get_all_positions
FoodCells(food) ==
    {<<food.x + c[1], food.y + c[2]>> : c \in ANIMAL_TYPES[food.kind].cells}

\* Food(...) as _spawn_food builds it from get_random_food()
NewFood(kind, x, y) ==
    [kind |-> kind, x |-> x, y |-> y,
     health |-> ANIMAL_TYPES[kind].health, hit_recovery |-> 0]

SeqToSet(s) == {s[i] : i \in 1..Len(s)}

\* The players in dict order (humans in join order, then the AI players)
PlayerIds(g) == SeqToSet(g.order)

\* `occupied` of _spawn_food without the bodies of the snakes
OccupiedNoSnakes(g, q) ==
    (IF q \in DOMAIN g.foods
     THEN UNION {FoodCells(g.foods[q][i]) : i \in 1..Len(g.foods[q])}
     ELSE {})
    \cup (IF q \in DOMAIN g.walls THEN WallPositions(g.walls[q]) ELSE {})

\* `occupied` of _spawn_food: bodies of the snakes of the quadrant (dead ones
\* too), cells of its foods, its wall positions
Occupied(g, q) ==
    UNION {SeqToSet(g.players[p].body) :
              p \in {i \in PlayerIds(g) : g.players[i].quadrant = q}}
    \cup (IF q \in DOMAIN g.foods
          THEN UNION {FoodCells(g.foods[q][i]) : i \in 1..Len(g.foods[q])}
          ELSE {})
    \cup (IF q \in DOMAIN g.walls THEN WallPositions(g.walls[q]) ELSE {})

\* One attempt of _spawn_food: the animal and anchor drawn, or, for an animal
\* too large for the quadrant, the animal alone (the attempt is skipped)
SpawnAttempts(b) ==
    UNION {LET cells == ANIMAL_TYPES[k].cells
               max_dx == CHOOSE m \in {c[1] : c \in cells} :
                             \A c \in cells : c[1] <= m
               max_dy == CHOOSE m \in {c[2] : c \in cells} :
                             \A c \in cells : c[2] <= m
               x_lo == b.x_min + 2
               x_hi == b.x_max - max_dx - 3
               y_lo == b.y_min + 2
               y_hi == b.y_max - max_dy - 3
           IN  IF x_hi < x_lo \/ y_hi < y_lo
               THEN {[kind |-> k, fits |-> FALSE, x |-> 0, y |-> 0]}
               ELSE {[kind |-> k, fits |-> TRUE, x |-> x, y |-> y] :
                        x \in RandInt(x_lo, x_hi, SpawnSpan),
                        y \in RandInt(y_lo, y_hi, SpawnSpan)} :
           k \in get_random_food}

\* all_free of _spawn_food
AttemptSucceeds(g, q, a) ==
    /\ a.fits
    /\ FoodCells(NewFood(a.kind, a.x, a.y)) \cap Occupied(g, q) = {}

\* foods[q] with one more food at the end
AppendFood(g, q, food) ==
    [g EXCEPT !.foods =
        IF q \in DOMAIN g.foods
        THEN [g.foods EXCEPT ![q] = Append(@, food)]
        ELSE g.foods @@ (q :> <<food>>)]

\* GameManager._spawn_food: the states it can leave.  The first attempt that
\* succeeds appends its food; when every one of the 100 attempts fails (each
\* attempt can fail as soon as one draw fails) nothing is spawned.
SpawnFood(g, q) ==
    IF q \notin DOMAIN g.quadrant_bounds THEN {g}
    ELSE LET attempts == SpawnAttempts(g.quadrant_bounds[q])
             good == {a \in attempts : AttemptSucceeds(g, q, a)}
         IN  {AppendFood(g, q, NewFood(a.kind, a.x, a.y)) : a \in good}
             \cup (IF good # attempts THEN {g} ELSE {})

\* The order in which _find_safe_spawn tries the directions
SpawnDirOrder == <<"right", "left", "up", "down">>

Abs(n) == IF n < 0 THEN -n ELSE n

\* body = [Position(start_x - vx * j, start_y - vy * j) for j in range(3)]
SpawnBody(x, y, d) ==
    LET v == DirVector(d)
    IN  [j \in 1..3 |-> <<x - v[1] * (j - 1), y - v[2] * (j - 1)>>]

\* _find_safe_spawn that takes the center facing right at once
FindSafeSpawnCenter(b, wall_positions) ==
    <<Center(b)[1], Center(b)[2], "right">>

\* GameManager._find_safe_spawn: <<x, y, direction>> of the first position of
\* the spiral around the center whose 3 body cells and 3 cells ahead are
\* free of walls; the center facing right when there is none.
FindSafeSpawn(b, wall_positions) ==
    LET c == Center(b)
        span == Max(b.x_max - b.x_min, b.y_max - b.y_min)
        Clear(x, y, d) ==
            LET v == DirVector(d)
            IN  /\ \A j \in 0..2 : <<x - v[1] * j, y - v[2] * j>> \notin wall_positions
                /\ \A i \in 1..3 : <<x + v[1] * i, y + v[2] * i>> \notin wall_positions
        cands == {t \in [offset : 0..(span - 1), dx : (-span)..span,
                         dy : (-span)..span, di : 1..4] :
                    /\ Abs(t.dx) <= t.offset /\ Abs(t.dy) <= t.offset
                    /\ (Abs(t.dx) = t.offset \/ Abs(t.dy) = t.offset)
                    /\ c[1] + t.dx >= b.x_min + 4 /\ c[1] + t.dx <= b.x_max - 4
                    /\ c[2] + t.dy >= b.y_min + 4 /\ c[2] + t.dy <= b.y_max - 4
                    /\ Clear(c[1] + t.dx, c[2] + t.dy, SpawnDirOrder[t.di])}
        Before(t, u) ==
            \/ t.offset < u.offset
            \/ t.offset = u.offset /\ t.dx < u.dx
            \/ t.offset = u.offset /\ t.dx = u.dx /\ t.dy < u.dy
            \/ t.offset = u.offset /\ t.dx = u.dx /\ t.dy = u.dy /\ t.di <= u.di
    IN  IF cands = {} THEN <<c[1], c[2], "right">>
        ELSE LET first == CHOOSE t \in cands : \A u \in cands : Before(t, u)
             IN  <<c[1] + first.dx, c[2] + first.dy, SpawnDirOrder[first.di]>>

\* Player(...) with the Snake that _setup_snake_for_player gives it
NewPlayer(quadrant, is_ai, ai_difficulty, death_count, spawn, decay, t) ==
    [quadrant |-> quadrant, is_ai |-> is_ai, ai_difficulty |-> ai_difficulty,
     ai_last_decision |-> IF is_ai THEN t ELSE 0, state |-> "playing", death_time |-> NoTime,
     death_count |-> death_count, respawn_delay |-> 2000000, rank |-> 0,
     body |-> SpawnBody(spawn[1], spawn[2], spawn[3]),
     direction |-> spawn[3], next_direction |-> spawn[3],
     alive |-> TRUE, score |-> 0, combo |-> 0, combo_timer |-> 0,
     decay_timer |-> decay]

\* TIME_LIMIT_OPTIONS.get(key, TIME_LIMIT_OPTIONS["1m"])["seconds"]
TimeLimitSeconds(key) ==
    CASE key = "30s" -> 30
      [] key = "2m" -> 120
      [] key = "3m" -> 180
      [] OTHER -> 60

\* GameManager._get_next_quadrant
GetNextQuadrant(used_quadrants, total_players) ==
    LET free == {q \in 0..(Min(total_players, 4) - 1) : q \notin used_quadrants}
    IN  IF free = {} THEN 0
        ELSE CHOOSE q \in free : \A r \in free : q <= r

\* GameManager._setup_snake_for_player, after the player was entered in
\* state.players: the snake at its safe spawn, and two foods for a quadrant
\* that has no food list yet.
SetupSnakeForPlayer(g, id, ps, t) ==
    LET q == ps.quadrant
        spawn == IF q \in DOMAIN g.quadrant_bounds
                 THEN FindSafeSpawn(g.quadrant_bounds[q],
                                    WallPositions(g.walls[q]))
                 ELSE <<0, 0, "right">>
        player == NewPlayer(q, ps.is_ai, ps.ai_difficulty, ps.death_count,
                            spawn, 6000000, t)
        g1 == [g EXCEPT !.players = @ @@ (id :> player),
                        !.order = Append(@, id)]
    IN  IF q \in DOMAIN g.foods THEN {g1}
        ELSE LET g2 == [g1 EXCEPT !.foods = @ @@ (q :> <<>>)]
             IN  UNION {SpawnFood(g3, q) : g3 \in SpawnFood(g2, q)}

\* The loops of setup_game over room.players and over range(ai_count)
RECURSIVE SetupPlayers(_, _, _)
SetupPlayers(g, specs, t) ==
    IF specs = <<>> THEN {g}
    ELSE UNION {SetupPlayers(g1, Tail(specs), t) :
                   g1 \in SetupSnakeForPlayer(g, Head(specs).id, Head(specs), t)}

\* The quadrants setup_game gives the AI players, in order
RECURSIVE AiQuadrants(_, _, _)
AiQuadrants(used, n, total) ==
    IF n = 0 THEN <<>>
    ELSE LET q == GetNextQuadrant(used, total)
         IN  <<q>> \o AiQuadrants(used \cup {q}, n - 1, total)

\* setup_game that leaves the mode of the room as it is
SetupModeKept(r) == r.game_mode

\* The mode setup_game plays: a Survival room with at most one player in all
\* is played as Single-Player
SetupMode(r) ==
    IF Len(r.humans) + r.ai_count <= 1 /\ r.game_mode = "survival"
    THEN "single_player" ELSE r.game_mode

\* GameManager.__init__ and setup_game at wall-clock time t: every GameState
\* the setup of room `r` can produce (the walls and the foods are random).
\* r.width and r.height are the width and height of the room's map size.
SetupGame(r, t) ==
    LET total_players == Len(r.humans) + r.ai_count
        mode == SetupMode(r)
        is_single_player == mode = "single_player" /\ r.ai_count = 0
        bounds == SetupQuadrants(IF is_single_player THEN 1 ELSE total_players,
                                 r.width, r.height)
        layouts == [q \in DOMAIN bounds |->
                       GenerateWalls(bounds[q], r.barrier_density)]
        humans == [i \in 1..Len(r.humans) |->
                      [id |-> r.humans[i].id,
                       quadrant |-> IF is_single_player THEN 0
                                    ELSE r.humans[i].quadrant,
                       is_ai |-> FALSE, ai_difficulty |-> "amateur",
                       death_count |-> r.humans[i].death_count]]
        ai_q == AiQuadrants({humans[i].quadrant : i \in 1..Len(humans)},
                            r.ai_count, total_players)
        ais == [i \in 1..r.ai_count |->
                   [id |-> -i, quadrant |-> ai_q[i], is_ai |-> TRUE,
                    ai_difficulty |-> IF i <= Len(r.ai_difficulties)
                                      THEN r.ai_difficulties[i] ELSE "amateur",
                    death_count |-> 0]]
        Base(layout) ==
            [mode |-> mode, barrier_density |-> r.barrier_density,
             quadrant_bounds |-> bounds,
             walls |-> [q \in DOMAIN bounds |-> layout[q].walls],
             walls_fallback |-> [q \in DOMAIN bounds |-> layout[q].fallback],
             foods |-> <<>>, players |-> <<>>, order |-> <<>>,
             running |-> FALSE, paused |-> FALSE, game_over |-> FALSE,
             winner_id |-> NoWinner, elapsed_time |-> 0,
             time_limit |-> 180000000,
             current_speed |-> BASE_SPEED,
             next_shrink_time |-> SHRINK_INTERVAL,
             survival_speed_next_increase |-> SPEED_RAMP_INTERVAL,
             survival_decay_current_interval |-> 6000000,
             alive_count |-> 0, single_player_high_score |-> 0]
        Finish(g) ==
            [g EXCEPT !.alive_count = total_players,
                      !.running = TRUE,
                      !.time_limit =
                          CASE mode = "high_score" ->
                                   TimeLimitSeconds(r.time_limit) * 1000000
                            [] mode = "single_player" -> 0
                            [] OTHER -> @]
    IN  {Finish(g) :
            g \in UNION {SetupPlayers(Base(layout), humans \o ais, t) :
                            layout \in {f \in [DOMAIN bounds ->
                                                 UNION {layouts[q] : q \in DOMAIN bounds}] :
                                           \A q \in DOMAIN bounds : f[q] \in layouts[q]}}}

-----------------------------------------------------------------------------
(* Input, death and respawn *)

\* Direction(direction) of handle_input: the tokens that are Directions
ParseDirection(token) == IF token \in Directions THEN token ELSE None

\* handle_input without the test against the opposite of the current direction
HandleInputAnyTurn(g, player_id, token) ==
    IF player_id \notin PlayerIds(g) THEN g
    ELSE IF ~g.players[player_id].alive THEN g
    ELSE IF ParseDirection(token) = None THEN g
    ELSE [g EXCEPT !.players[player_id].next_direction = ParseDirection(token)]

\* GameManager.handle_input
HandleInputState(g, player_id, token) ==
    IF player_id \notin PlayerIds(g) THEN g
    ELSE IF ~g.players[player_id].alive THEN g
    ELSE LET new_dir == ParseDirection(token)
             current == g.players[player_id].direction
         IN  IF new_dir = None THEN g
             ELSE IF new_dir # Opposite(current)
             THEN [g EXCEPT !.players[player_id].next_direction = new_dir]
             ELSE g

\* GameManager._RESPAWN_FIBONACCI, seconds
RESPAWN_FIBONACCI == <<2, 3, 5, 8, 13, 21>>

\* _get_respawn_delay as the flat respawn delay of 2 s
GetRespawnDelayFlat(death_count) == 2 * 1000000

\* GameManager._get_respawn_delay, in microseconds
GetRespawnDelay(death_count) ==
    LET idx == Min(death_count - 1, Len(RESPAWN_FIBONACCI) - 1)
    IN  RESPAWN_FIBONACCI[Max(0, idx) + 1] * 1000000

\* GameManager._kill_snake at wall-clock time t
KillSnake(g, p, t) ==
    LET pl == g.players[p]
        alive_count == g.alive_count - 1
    IN  [g EXCEPT
            !.players[p] =
                [pl EXCEPT !.alive = FALSE,
                           !.state = "dead",
                           !.death_time = t,
                           !.death_count = pl.death_count + 1,
                           !.respawn_delay =
                               IF g.mode = "high_score"
                               THEN GetRespawnDelay(pl.death_count + 1)
                               ELSE @,
                           !.rank = IF g.mode = "survival"
                                    THEN alive_count + 1 ELSE @],
            !.alive_count = alive_count]

\* GameManager._respawn_snake
RespawnSnake(g, p) ==
    LET q == g.players[p].quadrant
    IN  IF q \notin DOMAIN g.quadrant_bounds THEN g
        ELSE LET spawn == FindSafeSpawn(g.quadrant_bounds[q],
                                        WallPositions(g.walls[q]))
             IN  [g EXCEPT
                     !.players[p].body = SpawnBody(spawn[1], spawn[2], spawn[3]),
                     !.players[p].direction = spawn[3],
                     !.players[p].next_direction = spawn[3],
                     !.players[p].alive = TRUE,
                     !.players[p].combo = 0,
                     !.players[p].state = "playing",
                     !.alive_count = g.alive_count + 1]

\* The respawn pass that does not wait for the delay
RECURSIVE RespawnPassAtOnce(_, _, _)
RespawnPassAtOnce(g, ps, t) ==
    IF ps = <<>> THEN g
    ELSE LET pl == g.players[Head(ps)]
             due == /\ pl.state = "dead"
                    /\ pl.death_time # NoTime /\ pl.death_time # 0
         IN  RespawnPassAtOnce(IF due THEN RespawnSnake(g, Head(ps)) ELSE g,
                               Tail(ps), t)

\* The respawn pass of run_game_loop over the players, in dict order
RECURSIVE RespawnPass(_, _, _)
RespawnPass(g, ps, t) ==
    IF ps = <<>> THEN g
    ELSE LET pl == g.players[Head(ps)]
             due == /\ pl.state = "dead"
                    /\ pl.death_time # NoTime /\ pl.death_time # 0
                    /\ t - pl.death_time >= 3 * pl.respawn_delay
         IN  RespawnPass(IF due THEN RespawnSnake(g, Head(ps)) ELSE g,
                         Tail(ps), t)

-----------------------------------------------------------------------------
(* Moving and eating *)

\* The products score * (1 + combo * 0.1) whose double falls just below the
\* integer the exact product reaches, for the per-hit scores of ANIMAL_TYPES
\* and combos up to 40; int() then yields one less
ComboFloatShort ==
    {<<45, 4>>, <<45, 18>>, <<45, 36>>, <<50, 13>>, <<50, 31>>, <<50, 36>>,
     <<60, 31>>, <<85, 4>>, <<85, 18>>, <<85, 36>>, <<90, 4>>, <<90, 13>>,
     <<90, 18>>, <<90, 31>>, <<90, 36>>, <<100, 13>>, <<100, 31>>,
     <<100, 36>>, <<105, 36>>, <<120, 31>>, <<170, 4>>, <<170, 13>>,
     <<170, 18>>, <<170, 31>>, <<170, 36>>, <<200, 13>>, <<200, 31>>,
     <<200, 36>>}

\* the finishing hit without the combo bonus
ComboScoreNoBonus(score, combo) == score

\* int(score * (1 + snake.combo * 0.1)) of _move_snake
ComboScore(score, combo) ==
    (score * (10 + combo)) \div 10
        - (IF <<score, combo>> \in ComboFloatShort THEN 1 ELSE 0)

\* the per-hit score without the division by max_health
HitScoreFullValue(kind, density) ==
    (ANIMAL_TYPES[kind].value * BarrierMultiplier100(density)) \div 100

\* int(base_pts_per_hit * barrier_config["multiplier"]) of _move_snake
HitScore(kind, density) ==
    ((ANIMAL_TYPES[kind].value \div ANIMAL_TYPES[kind].health)
        * BarrierMultiplier100(density)) \div 100

\* GameManager._get_survival_decay_interval at elapsed time t
GetSurvivalDecayInterval(t) ==
    IF t < 30000000 THEN 6000000
    ELSE IF t < 60000000 THEN 5000000
    ELSE IF t < 120000000 THEN 4000000
    ELSE 3000000

\* The single-player high-score update that follows a hit in _move_snake
BumpHighScore(g, p) ==
    IF g.mode = "single_player"
       /\ g.players[p].score > g.single_player_high_score
    THEN [g EXCEPT !.single_player_high_score = g.players[p].score]
    ELSE g

\* `if food.health <= 0` of _move_snake with < for <=
FoodConsumedBelowZero(health) == health < 0

\* `if food.health <= 0` of _move_snake: the hit was the finishing one
FoodConsumed(health) == health <= 0

\* the food loop of _move_snake without the skip of recovering foods
EdibleAlways(food) == TRUE

\* `if food.hit_recovery > 0: continue` of _move_snake: the food can be hit
Edible(food) == ~(food.hit_recovery > 0)

RemoveAt(s, i) == SubSeq(s, 1, i - 1) \o SubSeq(s, i + 1, Len(s))

\* the `if hit:` branch with the combo raised by the partial hits as well
HitFoodComboOnEveryHit(g, p, q, i) ==
    LET food == g.foods[q][i]
        pl == g.players[p]
        score == HitScore(food.kind, g.barrier_density)
        combo == pl.combo + 1
    IN  IF FoodConsumed(food.health - 1)
        THEN LET eaten ==
                     [g EXCEPT
                        !.players[p].combo = combo,
                        !.players[p].combo_timer = COMBO_WINDOW,
                        !.players[p].decay_timer =
                            IF g.mode = "survival"
                            THEN GetSurvivalDecayInterval(g.elapsed_time)
                            ELSE @,
                        !.players[p].score =
                            pl.score + ComboScore(score, combo),
                        !.foods[q] = RemoveAt(@, i)]
             IN  {BumpHighScore(g2, p) : g2 \in SpawnFood(eaten, q)}
        ELSE {BumpHighScore(
                 [g EXCEPT
                    !.players[p].combo = combo,
                    !.players[p].combo_timer = COMBO_WINDOW,
                    !.players[p].score = pl.score + score,
                    !.foods[q][i].health = food.health - 1,
                    !.foods[q][i].hit_recovery =
                        FOOD_HIT_RECOVERY(ANIMAL_TYPES[food.kind].category)],
                 p)}

\* The `if hit:` branch of _move_snake for food number i of quadrant q
HitFood(g, p, q, i) ==
    LET food == g.foods[q][i]
        pl == g.players[p]
        score == HitScore(food.kind, g.barrier_density)
    IN  IF FoodConsumed(food.health - 1)
        THEN LET comboed == g.mode \in {"high_score", "single_player",
                                        "survival"}
                 combo == IF comboed THEN pl.combo + 1 ELSE pl.combo
                 final == IF comboed THEN ComboScore(score, combo) ELSE score
                 eaten ==
                     [g EXCEPT
                        !.players[p].combo = combo,
                        !.players[p].combo_timer =
                            IF comboed THEN COMBO_WINDOW ELSE @,
                        !.players[p].decay_timer =
                            IF g.mode = "survival"
                            THEN GetSurvivalDecayInterval(g.elapsed_time)
                            ELSE @,
                        !.players[p].score = pl.score + final,
                        !.foods[q] = RemoveAt(@, i)]
             IN  {BumpHighScore(g2, p) : g2 \in SpawnFood(eaten, q)}
        ELSE {BumpHighScore(
                 [g EXCEPT
                    !.players[p].score = pl.score + score,
                    !.foods[q][i].health = food.health - 1,
                    !.foods[q][i].hit_recovery =
                        FOOD_HIT_RECOVERY(ANIMAL_TYPES[food.kind].category)],
                 p)}

\* GameManager._get_wall_positions
GetWallPositions(g, q) ==
    IF q \in DOMAIN g.walls THEN WallPositions(g.walls[q]) ELSE {}

\* _move_snake that keeps the tail only when the food was consumed
MoveSnakeGrowOnKill(g, p, t) ==
    LET pl == g.players[p]
        q == pl.quadrant
        d == pl.next_direction
        turned == [g EXCEPT !.players[p].direction = d]
        v == DirVector(d)
        new_head == <<pl.body[1][1] + v[1], pl.body[1][2] + v[2]>>
    IN  IF q \in DOMAIN g.quadrant_bounds
           /\ ~Contains(g.quadrant_bounds[q], new_head)
        THEN {KillSnake(turned, p, t)}
        ELSE IF new_head \in GetWallPositions(g, q)
        THEN {KillSnake(turned, p, t)}
        ELSE IF new_head \in SeqToSet(SubSeq(pl.body, 1, Len(pl.body) - 1))
        THEN {KillSnake(turned, p, t)}
        ELSE LET grown == [turned EXCEPT
                              !.players[p].body = <<new_head>> \o pl.body]
                 foods == IF q \in DOMAIN g.foods THEN g.foods[q] ELSE <<>>
                 hits == {i \in 1..Len(foods) :
                             /\ Edible(foods[i])
                             /\ new_head \in FoodCells(foods[i])}
                 first == CHOOSE i \in hits : \A j \in hits : i <= j
             IN  IF hits = {}
                 THEN {[grown EXCEPT !.players[p].body =
                           SubSeq(@, 1, Len(@) - 1)]}
                 ELSE IF FoodConsumed(foods[first].health - 1)
                 THEN HitFood(grown, p, q, first)
                 ELSE {[g2 EXCEPT !.players[p].body =
                           SubSeq(@, 1, Len(@) - 1)] :
                          g2 \in HitFood(grown, p, q, first)}

\* _move_snake with the self-collision test against the whole body, the
\* tail included
MoveSnakeTailFatal(g, p, t) ==
    LET pl == g.players[p]
        q == pl.quadrant
        d == pl.next_direction
        turned == [g EXCEPT !.players[p].direction = d]
        v == DirVector(d)
        new_head == <<pl.body[1][1] + v[1], pl.body[1][2] + v[2]>>
    IN  IF q \in DOMAIN g.quadrant_bounds
           /\ ~Contains(g.quadrant_bounds[q], new_head)
        THEN {KillSnake(turned, p, t)}
        ELSE IF new_head \in GetWallPositions(g, q)
        THEN {KillSnake(turned, p, t)}
        ELSE IF new_head \in SeqToSet(pl.body)
        THEN {KillSnake(turned, p, t)}
        ELSE LET grown == [turned EXCEPT
                              !.players[p].body = <<new_head>> \o pl.body]
                 foods == IF q \in DOMAIN g.foods THEN g.foods[q] ELSE <<>>
                 hits == {i \in 1..Len(foods) :
                             /\ Edible(foods[i])
                             /\ new_head \in FoodCells(foods[i])}
             IN  IF hits = {}
                 THEN {[grown EXCEPT !.players[p].body =
                           SubSeq(@, 1, Len(@) - 1)]}
                 ELSE HitFood(grown, p, q,
                              CHOOSE i \in hits : \A j \in hits : i <= j)

\* GameManager._move_snake at wall-clock time t: the states it can leave
MoveSnake(g, p, t) ==
    LET pl == g.players[p]
        q == pl.quadrant
        d == pl.next_direction
        turned == [g EXCEPT !.players[p].direction = d]
        v == DirVector(d)
        new_head == <<pl.body[1][1] + v[1], pl.body[1][2] + v[2]>>
    IN  IF q \in DOMAIN g.quadrant_bounds
           /\ ~Contains(g.quadrant_bounds[q], new_head)
        THEN {KillSnake(turned, p, t)}
        ELSE IF new_head \in GetWallPositions(g, q)
        THEN {KillSnake(turned, p, t)}
        ELSE IF new_head \in SeqToSet(SubSeq(pl.body, 1, Len(pl.body) - 1))
        THEN {KillSnake(turned, p, t)}
        ELSE LET grown == [turned EXCEPT
                              !.players[p].body = <<new_head>> \o pl.body]
                 foods == IF q \in DOMAIN g.foods THEN g.foods[q] ELSE <<>>
                 hits == {i \in 1..Len(foods) :
                             /\ Edible(foods[i])
                             /\ new_head \in FoodCells(foods[i])}
             IN  IF hits = {}
                 THEN {[grown EXCEPT !.players[p].body =
                           SubSeq(@, 1, Len(@) - 1)]}
                 ELSE HitFood(grown, p, q,
                              CHOOSE i \in hits : \A j \in hits : i <= j)

-----------------------------------------------------------------------------
(* The tick *)

\* The recovery windows and tick lengths whose float countdown does not end
\* at the tick the exact one ends at: 0.8 less 8 times 0.1 and 2.5 less 50
\* times 0.05 leave a double just above 0, and the window lasts a tick more
RecoveryFloatLong == {<<"medium", 100000>>, <<"huge", 50000>>}

\* The hit-recovery countdown of update.  A window is a multiple of the one
\* tick length it is counted down with; the double left above 0 is held as
\* 1 (less than a microsecond).
TickHitRecovery(g, dt) ==
    [g EXCEPT !.foods =
        [q \in DOMAIN g.foods |->
            [i \in 1..Len(g.foods[q]) |->
                LET food == g.foods[q][i]
                    category == ANIMAL_TYPES[food.kind].category
                IN  IF food.hit_recovery > 0
                    THEN [food EXCEPT
                             !.hit_recovery =
                                 IF @ = dt
                                    /\ <<category, dt>> \in RecoveryFloatLong
                                 THEN 1 ELSE Max(0, @ - dt)]
                    ELSE food]]]

\* The combo countdown of _update_single_player and _update_high_score
TickCombo(g, dt) ==
    [g EXCEPT !.players =
        [p \in DOMAIN g.players |->
            LET pl == g.players[p]
            IN  IF pl.alive /\ pl.combo_timer > 0
                THEN [pl EXCEPT
                         !.combo_timer = @ - dt,
                         !.combo = IF pl.combo_timer - dt <= 0 THEN 0 ELSE @]
                ELSE pl]]

\* base * factor ** n for factor = percent / 100, rounded down to the
\* microsecond at each step
RECURSIVE SpeedPow(_, _, _)
SpeedPow(base, percent, n) ==
    IF n = 0 THEN base
    ELSE (SpeedPow(base, percent, n - 1) * percent) \div 100

\* GameManager._update_single_player
UpdateSinglePlayer(g, dt) ==
    LET g1 == TickCombo(g, dt)
        last == g1.order[Len(g1.order)]
    IN  IF g1.order = <<>> THEN g1
        ELSE [g1 EXCEPT !.current_speed =
                 Max(MIN_SPEED,
                     SpeedPow(BASE_SPEED, 95, g1.players[last].score \div 500))]

\* _apply_tail_decay that also shortens a snake of the minimum length
ApplyTailDecayBelowMin(g, p, t) ==
    IF ~g.players[p].alive THEN g
    ELSE IF Len(g.players[p].body) >= DECAY_MIN_LENGTH
    THEN [g EXCEPT !.players[p].body = SubSeq(@, 1, Len(@) - 1)]
    ELSE KillSnake(g, p, t)

\* _apply_tail_decay that leaves a snake of the minimum length as it is
ApplyTailDecayNoOp(g, p, t) ==
    IF ~g.players[p].alive THEN g
    ELSE IF Len(g.players[p].body) > DECAY_MIN_LENGTH
    THEN [g EXCEPT !.players[p].body = SubSeq(@, 1, Len(@) - 1)]
    ELSE g

\* GameManager._apply_tail_decay
ApplyTailDecay(g, p, t) ==
    IF ~g.players[p].alive THEN g
    ELSE IF Len(g.players[p].body) > DECAY_MIN_LENGTH
    THEN [g EXCEPT !.players[p].body = SubSeq(@, 1, Len(@) - 1)]
    ELSE KillSnake(g, p, t)

\* The kills of _shrink_arena without the test that the snake is alive
RECURSIVE ShrinkKillsDeadToo(_, _, _, _)
ShrinkKillsDeadToo(g, q, ps, t) ==
    IF ps = <<>> THEN g
    ELSE LET pl == g.players[Head(ps)]
             out == /\ pl.quadrant = q
                    /\ ~Contains(g.quadrant_bounds[q], pl.body[1])
         IN  ShrinkKillsDeadToo(IF out THEN KillSnake(g, Head(ps), t) ELSE g,
                                q, Tail(ps), t)

\* The kills of _shrink_arena in quadrant q, over the players in dict order
RECURSIVE ShrinkKills(_, _, _, _)
ShrinkKills(g, q, ps, t) ==
    IF ps = <<>> THEN g
    ELSE LET pl == g.players[Head(ps)]
             out == /\ pl.quadrant = q /\ pl.alive
                    /\ ~Contains(g.quadrant_bounds[q], pl.body[1])
         IN  ShrinkKills(IF out THEN KillSnake(g, Head(ps), t) ELSE g,
                         q, Tail(ps), t)

\* GameManager._shrink_arena over the quadrants qs, in dict order
RECURSIVE ShrinkArena(_, _, _)
ShrinkArena(g, qs, t) ==
    IF qs = <<>> THEN g
    ELSE LET q == Head(qs)
             b == g.quadrant_bounds[q]
             shrunk == [g EXCEPT !.quadrant_bounds[q] =
                           QuadrantBounds(b.x_min + SHRINK_AMOUNT,
                                          b.x_max - SHRINK_AMOUNT,
                                          b.y_min + SHRINK_AMOUNT,
                                          b.y_max - SHRINK_AMOUNT)]
         IN  ShrinkArena(ShrinkKills(shrunk, q, g.order, t), Tail(qs), t)

\* The quadrants with bounds, in the order _setup_quadrants inserts them
QuadrantOrder(g) ==
    LET F[i \in 0..4] ==
            IF i = 0 THEN <<>>
            ELSE IF (i - 1) \in DOMAIN g.quadrant_bounds
                 THEN Append(F[i - 1], i - 1) ELSE F[i - 1]
    IN  F[4]

\* The tail-decay loop of _update_survival over the players in dict order
RECURSIVE DecayPass(_, _, _, _, _)
DecayPass(g, ps, dt, interval, t) ==
    IF ps = <<>> THEN g
    ELSE LET p == Head(ps)
             pl == g.players[p]
             timer == pl.decay_timer - dt
             ticked == [g EXCEPT !.players[p].decay_timer = timer]
             decayed == ApplyTailDecay(ticked, p, t)
             g2 == IF ~pl.alive THEN g
                   ELSE IF timer <= 0
                   THEN IF decayed.players[p].alive
                        THEN [decayed EXCEPT
                                 !.players[p].decay_timer = interval]
                        ELSE decayed
                   ELSE ticked
         IN  DecayPass(g2, Tail(ps), dt, interval, t)

\* GameManager._update_survival
UpdateSurvival(g, dt, t) ==
    LET g1 == IF g.elapsed_time >= g.next_shrink_time
              THEN [ShrinkArena(g, QuadrantOrder(g), t) EXCEPT
                       !.next_shrink_time = @ + SHRINK_INTERVAL]
              ELSE g
        g2 == IF g1.elapsed_time >= g1.survival_speed_next_increase
              THEN [g1 EXCEPT
                       !.current_speed =
                           Max(BASE_SPEED \div 2, (@ * 95) \div 100),
                       !.survival_speed_next_increase =
                           @ + SPEED_RAMP_INTERVAL]
              ELSE g1
        decay_interval == GetSurvivalDecayInterval(g2.elapsed_time)
        g3 == [g2 EXCEPT !.survival_decay_current_interval = decay_interval]
    IN  DecayPass(g3, g3.order, dt, decay_interval, t)

\* GameManager._end_game_high_score: ranks by score, highest first, ties in
\* dict order (sorted is stable)
EndGameHighScore(g) ==
    LET Pos(p) == CHOOSE i \in 1..Len(g.order) : g.order[i] = p
        Ahead(a, b) == \/ g.players[a].score > g.players[b].score
                       \/ /\ g.players[a].score = g.players[b].score
                          /\ Pos(a) < Pos(b)
        Rank(p) == 1 + Cardinality({a \in PlayerIds(g) : Ahead(a, p)})
    IN  [g EXCEPT
            !.game_over = TRUE,
            !.running = FALSE,
            !.players = [p \in DOMAIN g.players |->
                            [g.players[p] EXCEPT !.rank = Rank(p)]],
            !.winner_id = IF g.order = <<>> THEN @
                          ELSE CHOOSE p \in PlayerIds(g) : Rank(p) = 1]

\* _update_high_score that also ends the game when no snake is alive
UpdateHighScoreEndsOnDeaths(g, dt) ==
    LET g2 == TickCombo(g, dt)
    IN  IF g2.elapsed_time >= g2.time_limit \/ g2.alive_count <= 0
        THEN EndGameHighScore(g2) ELSE g2

\* _update_high_score that sets the expected speed without the floor
UpdateHighScoreNoFloor(g, dt) ==
    LET intervals_passed == g.elapsed_time \div HS_SPEED_INTERVAL
        expected_speed == SpeedPow(BASE_SPEED, 85, intervals_passed)
        g1 == IF g.current_speed > expected_speed
              THEN [g EXCEPT !.current_speed = expected_speed]
              ELSE g
        g2 == TickCombo(g1, dt)
    IN  IF g2.elapsed_time >= g2.time_limit THEN EndGameHighScore(g2) ELSE g2

\* GameManager._update_high_score
UpdateHighScore(g, dt) ==
    LET intervals_passed == g.elapsed_time \div HS_SPEED_INTERVAL
        expected_speed == SpeedPow(BASE_SPEED, 85, intervals_passed)
        g1 == IF g.current_speed > expected_speed
              THEN [g EXCEPT !.current_speed = Max(MIN_SPEED, expected_speed)]
              ELSE g
        g2 == TickCombo(g1, dt)
    IN  IF g2.elapsed_time >= g2.time_limit THEN EndGameHighScore(g2) ELSE g2

\* settings["reaction_time"] of AI_DIFFICULTY_SETTINGS, in microseconds
ReactionTime(ai_difficulty) ==
    CASE ai_difficulty = "semi_pro" -> 140000
      [] ai_difficulty = "pro" -> 90000
      [] ai_difficulty = "world_class" -> 45000
      [] OTHER -> 260000

\* _ai_build_blocked that leaves the walls out
AiBuildBlockedNoWalls(g, p) ==
    LET pl == g.players[p]
    IN  SeqToSet(SubSeq(pl.body, 1, Len(pl.body) - 1))
        \cup UNION {SeqToSet(g.players[o].body) :
                       o \in {i \in PlayerIds(g) :
                                 /\ i # p
                                 /\ g.players[i].quadrant = pl.quadrant
                                 /\ g.players[i].alive}}

\* GameManager._ai_build_blocked
AiBuildBlocked(g, p) ==
    LET pl == g.players[p]
    IN  GetWallPositions(g, pl.quadrant)
        \cup SeqToSet(SubSeq(pl.body, 1, Len(pl.body) - 1))
        \cup UNION {SeqToSet(g.players[o].body) :
                       o \in {i \in PlayerIds(g) :
                                 /\ i # p
                                 /\ g.players[i].quadrant = pl.quadrant
                                 /\ g.players[i].alive}}

\* GameManager._ai_safe_dirs
AiSafeDirs(g, p, bounds, blocked) ==
    LET pl == g.players[p]
    IN  {d \in Directions :
            /\ d # Opposite(pl.direction)
            /\ LET n == <<pl.body[1][1] + DirVector(d)[1],
                          pl.body[1][2] + DirVector(d)[2]>>
               IN  Contains(bounds, n) /\ n \notin blocked}

\* The keys of GameManager._DIR_VECTORS in dict order: the order in which
\* _ai_safe_dirs, _ai_bfs_to_food and max(safe_dirs, ...) visit directions
DirOrder == <<"up", "down", "left", "right">>

\* The cell next to c in direction d
Step(c, d) == <<c[1] + DirVector(d)[1], c[2] + DirVector(d)[2]>>

\* GameManager._ai_safe_dirs as the list it returns
AiSafeDirList(g, p, bounds, blocked) ==
    LET IsSafe(d) == d \in AiSafeDirs(g, p, bounds, blocked)
    IN  SelectSeq(DirOrder, IsSafe)

\* The layers of _flood_fill_count: cells of depth <= max_depth are counted,
\* cells of depth max_depth are not expanded
RECURSIVE FloodLayers(_, _, _, _)
FloodLayers(frontier, visited, free, depth_left) ==
    IF frontier = {} \/ depth_left = 0 THEN visited
    ELSE LET nxt == {c \in UNION {{Step(f, d) : d \in Directions} :
                                    f \in frontier} :
                        c \in free /\ c \notin visited}
         IN  FloodLayers(nxt, {c \in free : c \in visited \/ c \in nxt},
                         free, depth_left - 1)

\* GameManager._flood_fill_count
FloodFillCount(s, bounds, blocked, max_depth) ==
    IF ~Contains(bounds, s) \/ s \in blocked THEN 0
    ELSE Cardinality(FloodLayers({s}, {s},
                                 {c \in BoundsCells(bounds) : c \notin blocked},
                                 max_depth))

\* The cells of `cells` (a list in visiting order) that the search may enter
\* and has not entered, without repetition
RECURSIVE BfsFresh(_, _, _, _)
BfsFresh(cells, visited, bounds, blocked) ==
    IF cells = <<>> THEN <<>>
    ELSE LET c == Head(cells)
         IN  IF c \notin visited /\ Contains(bounds, c) /\ c \notin blocked
             THEN <<c>> \o BfsFresh(Tail(cells), visited \cup {c},
                                    bounds, blocked)
             ELSE BfsFresh(Tail(cells), visited, bounds, blocked)

\* The `while q` loop of _ai_bfs_to_food over the queue of
\* <<cell, first_dir, depth>>
RECURSIVE BfsLoop(_, _, _, _, _, _)
BfsLoop(queue, visited, target_cells, bounds, blocked, max_depth) ==
    IF queue = <<>> THEN None
    ELSE LET item == Head(queue)
             around == [i \in 1..4 |-> Step(item[1], DirOrder[i])]
         IN  IF item[3] >= max_depth
             THEN BfsLoop(Tail(queue), visited, target_cells, bounds,
                          blocked, max_depth)
             ELSE IF \E i \in 1..4 : around[i] \in target_cells
             THEN item[2]
             ELSE LET fresh == BfsFresh(around, visited, bounds, blocked)
                  IN  BfsLoop(Tail(queue)
                                 \o [i \in 1..Len(fresh) |->
                                        <<fresh[i], item[2], item[3] + 1>>],
                              visited \cup SeqToSet(fresh), target_cells,
                              bounds, blocked, max_depth)

\* GameManager._ai_bfs_to_food: the first step of a shortest path from the
\* head h to a target cell, or None
AiBfsToFood(h, target_cells, bounds, blocked, max_depth) ==
    LET around == [i \in 1..4 |-> Step(h, DirOrder[i])]
        hits == {i \in 1..4 : around[i] \in target_cells}
        \* a direction whose cell is a target returns at once; the cells of
        \* the directions before it were queued and are dropped
        first == CHOOSE i \in hits : \A j \in hits : i <= j
        open == {i \in 1..4 : /\ around[i] # h
                              /\ Contains(bounds, around[i])
                              /\ around[i] \notin blocked}
        IsOpen(d) == \E i \in open : DirOrder[i] = d
        dirs == SelectSeq(DirOrder, IsOpen)
    IN  IF hits # {} THEN DirOrder[first]
        ELSE BfsLoop([i \in 1..Len(dirs) |-> <<Step(h, dirs[i]), dirs[i], 1>>],
                     {h} \cup {Step(h, dirs[i]) : i \in 1..Len(dirs)},
                     target_cells, bounds, blocked, max_depth)

\* GameManager._ai_pick_food: the foods it can return ({} stands for None).
\* The candidates are the edible foods, or the food that is edible soonest
\* when none is.  With one candidate it is returned; with several, the
\* comparison of (value / max_health) ** value_power / dist is left open and
\* every candidate is a possible pick.
AiPickFood(g, p) ==
    LET q == g.players[p].quadrant
        foods == IF q \in DOMAIN g.foods THEN g.foods[q] ELSE <<>>
        edible == {i \in 1..Len(foods) : foods[i].hit_recovery <= 0}
        soonest == {CHOOSE i \in 1..Len(foods) :
                       \A j \in 1..Len(foods) :
                          \/ foods[i].hit_recovery < foods[j].hit_recovery
                          \/ /\ foods[i].hit_recovery = foods[j].hit_recovery
                             /\ i <= j}
    IN  IF foods = <<>> THEN {}
        ELSE {foods[i] : i \in IF edible # {} THEN edible ELSE soonest}

\* settings of AI_DIFFICULTY_SETTINGS["world_class"]
WC_FLOOD_FILL_DEPTH == 50
WC_DEAD_END_PERCENT == 35
WC_PATHFINDING_DEPTH == 65

\* Manhattan distance of two cells
Manhattan(a, b) == Abs(a[1] - b[1]) + Abs(a[2] - b[2])

\* flood[d] of _ai_decide_direction as a list along safe_dirs
AiFlood(head, bounds, blocked, safe_dirs) ==
    [i \in 1..Len(safe_dirs) |->
        FloodFillCount(Step(head, safe_dirs[i]), bounds, blocked,
                       WC_FLOOD_FILL_DEPTH)]

\* The scores of _ai_decide_direction for the settings of "world_class"
\* (dead_end_check, deterministic, use_pathfinding, survival_awareness,
\* randomness 0), multiplied by max_flood so that they are integers.  flood
\* is the list of flood-fill counts, has_target tells that _ai_pick_food
\* returned a food, bfs_dir is the result of _ai_bfs_to_food for it and
\* nearest the cell of it that min() returned.
AiScores(g, p, safe_dirs, flood, has_target, bfs_dir, nearest) ==
    LET pl == g.players[p]
        head == pl.body[1]
        max_flood == Max(1, CHOOSE m \in {flood[i] : i \in 1..Len(safe_dirs)} :
                               \A i \in 1..Len(safe_dirs) : flood[i] <= m)
        Space(i) == IF 100 * flood[i] < WC_DEAD_END_PERCENT * max_flood
                    THEN -10000 * max_flood
                    ELSE 60 * flood[i]
        FoodTerm(i) ==
            IF ~has_target THEN 0
            ELSE IF bfs_dir # None
                    /\ \E j \in 1..Len(safe_dirs) : safe_dirs[j] = bfs_dir
            THEN IF safe_dirs[i] = bfs_dir THEN 300 * max_flood ELSE 0
            ELSE LET new_dist == Manhattan(Step(head, safe_dirs[i]), nearest)
                     old_dist == Manhattan(head, nearest)
                 IN  IF new_dist < old_dist THEN 120 * max_flood
                     ELSE IF new_dist = old_dist THEN 30 * max_flood
                     ELSE 0
        Boosted(i) == IF g.mode = "survival" /\ Len(pl.body) <= 5
                         /\ Space(i) + FoodTerm(i) > 0
                      THEN 2 * (Space(i) + FoodTerm(i))
                      ELSE Space(i) + FoodTerm(i)
    IN  [i \in 1..Len(safe_dirs) |->
            [score |-> Boosted(i)
                         + (IF safe_dirs[i] = pl.direction
                            THEN 10 * max_flood ELSE 0),
             terms |-> <<flood[i], FoodTerm(i), safe_dirs[i] = pl.direction>>]]

\* max(safe_dirs, ...) that ignores the scores: the first safe direction
AiBestFirstSafe(safe_dirs, scores) == {safe_dirs[1]}

\* max(safe_dirs, key=scores): the first direction of the highest score.
\* Scores that are equal as rationals but are sums of different terms may
\* differ in the last bit as floats ((5 / 18) * 60 + 10 against
\* (8 / 18) * 60): each direction of such a tie is a possible pick.
AiBest(safe_dirs, scores) ==
    LET best == {i \in 1..Len(safe_dirs) :
                    \A j \in 1..Len(safe_dirs) :
                       scores[j].score <= scores[i].score}
        first == CHOOSE i \in best : \A j \in best : i <= j
    IN  IF \A i \in best : scores[i].terms = scores[first].terms
        THEN {safe_dirs[first]}
        ELSE {safe_dirs[i] : i \in best}

\* _ai_decide_direction for the settings of "world_class"
AiDecideWorldClass(g, p, bounds) ==
    LET pl == g.players[p]
        head == pl.body[1]
        picks == AiPickFood(g, p)
        \* min(target_cells, key=distance): a set is iterated in hash order,
        \* every cell of the least distance is a possible result
        Nearest(f) == {c \in FoodCells(f) :
                          \A o \in FoodCells(f) :
                             Manhattan(head, c) <= Manhattan(head, o)}
        Decide(blocked, safe_dirs, flood) ==
            IF safe_dirs = <<>> THEN {pl.direction}
            ELSE IF Len(safe_dirs) = 1 THEN {safe_dirs[1]}
            ELSE IF picks = {}
            THEN AiBest(safe_dirs,
                        AiScores(g, p, safe_dirs, flood, FALSE, None, head))
            ELSE UNION {AiBest(safe_dirs,
                               AiScores(g, p, safe_dirs, flood, TRUE,
                                        t[1], t[2])) :
                           t \in UNION {{AiBfsToFood(head, FoodCells(f), bounds,
                                                     blocked,
                                                     WC_PATHFINDING_DEPTH)}
                                           \X Nearest(f) : f \in picks}}
    IN  UNION {UNION {UNION {Decide(blocked, safe_dirs, flood) :
                                flood \in {AiFlood(head, bounds, blocked,
                                                   safe_dirs)}} :
                         safe_dirs \in {AiSafeDirList(g, p, bounds, blocked)}} :
                  blocked \in {AiBuildBlocked(g, p)}}

\* GameManager._ai_decide_direction: the directions it can return.  The
\* settings of "world_class" have no random term and are computed; for the
\* other difficulties, with two or more safe directions the scores (flood
\* fill, food targeting, the random terms) pick one of them and every safe
\* direction is kept as a possible pick.
AiDecideDirection(g, p) ==
    LET pl == g.players[p]
    IN  IF pl.quadrant \notin DOMAIN g.quadrant_bounds THEN {None}
        ELSE IF pl.ai_difficulty = "world_class"
        THEN AiDecideWorldClass(g, p, g.quadrant_bounds[pl.quadrant])
        ELSE LET safe_dirs == AiSafeDirs(g, p, g.quadrant_bounds[pl.quadrant],
                                         AiBuildBlocked(g, p))
             IN  IF safe_dirs = {} THEN {pl.direction} ELSE safe_dirs

\* GameManager._update_ai_snake at wall-clock time t (thirds of a
\* microsecond): the states it can leave
UpdateAiSnake(g, p, t) ==
    LET pl == g.players[p]
    IN  IF ~pl.alive THEN {g}
        ELSE IF t - pl.ai_last_decision < 3 * ReactionTime(pl.ai_difficulty)
        THEN {g}
        ELSE {[g EXCEPT
                  !.players[p].ai_last_decision = t,
                  !.players[p].next_direction =
                      IF new_direction # None
                         /\ new_direction # Opposite(pl.direction)
                      THEN new_direction ELSE @] :
                 new_direction \in AiDecideDirection(g, p)}

\* The AI loop of update over the players ps, in dict order
RECURSIVE AiPass(_, _, _)
AiPass(g, ps, t) ==
    IF ps = <<>> THEN {g}
    ELSE LET p == Head(ps)
         IN  IF g.players[p].is_ai /\ g.players[p].alive
             THEN UNION {AiPass(g1, Tail(ps), t) :
                            g1 \in UpdateAiSnake(g, p, t)}
             ELSE AiPass(g, Tail(ps), t)

\* The move loop of update over the players ps, in dict order
RECURSIVE MovePass(_, _, _)
MovePass(g, ps, t) ==
    IF ps = <<>> THEN {g}
    ELSE LET p == Head(ps)
         IN  IF g.players[p].alive
             THEN UNION {MovePass(g1, Tail(ps), t) : g1 \in MoveSnake(g, p, t)}
             ELSE MovePass(g, Tail(ps), t)

\* _check_win_conditions that ends a Survival game only when no snake is left
CheckWinConditionsNoneLeft(g) ==
    IF g.mode = "survival" /\ g.alive_count <= 0
    THEN [g EXCEPT !.game_over = TRUE, !.running = FALSE]
    ELSE g

\* GameManager._check_win_conditions
CheckWinConditions(g) ==
    IF g.mode = "survival"
    THEN IF g.alive_count <= 1
         THEN LET living == {i \in 1..Len(g.order) :
                                g.players[g.order[i]].alive}
                  first == g.order[CHOOSE i \in living :
                                      \A j \in living : i <= j]
                  won == IF living = {} THEN g
                         ELSE [g EXCEPT !.players[first].rank = 1,
                                        !.winner_id = first]
              IN  [won EXCEPT !.game_over = TRUE, !.running = FALSE]
         ELSE g
    ELSE IF g.mode = "single_player"
    THEN IF g.alive_count <= 0
         THEN [g EXCEPT
                  !.players = [p \in DOMAIN g.players |->
                                  [g.players[p] EXCEPT !.rank = 1]],
                  !.winner_id = IF g.order = <<>> THEN @
                                ELSE g.order[Len(g.order)],
                  !.game_over = TRUE,
                  !.running = FALSE]
         ELSE g
    ELSE g

\* update without the return for a game that is over: only a stopped or
\* paused game is left alone
UpdateStateAfterEnd(g, dt, t) ==
    IF (~g.running /\ ~g.game_over) \/ g.paused THEN {g}
    ELSE LET g1 == TickHitRecovery(
                       [g EXCEPT !.elapsed_time = @ + dt], dt)
             g2 == CASE g1.mode = "survival" -> UpdateSurvival(g1, dt, t)
                     [] g1.mode = "high_score" -> UpdateHighScore(g1, dt)
                     [] g1.mode = "single_player" -> UpdateSinglePlayer(g1, dt)
                     [] OTHER -> g1
         IN  {CheckWinConditions(g4) :
                 g4 \in UNION {MovePass(g3, g3.order, t) :
                                  g3 \in AiPass(g2, g2.order, t)}}

\* GameManager.update(dt) up to its AI pass: the clock, the recovery windows
\* and the policy of the mode
ModeUpdate(g, dt, t) ==
    LET g1 == TickHitRecovery([g EXCEPT !.elapsed_time = @ + dt], dt)
    IN  CASE g1.mode = "survival" -> UpdateSurvival(g1, dt, t)
          [] g1.mode = "high_score" -> UpdateHighScore(g1, dt)
          [] g1.mode = "single_player" -> UpdateSinglePlayer(g1, dt)
          [] OTHER -> g1

\* GameManager.update(dt) at wall-clock time t: the states it can leave
UpdateState(g, dt, t) ==
    IF ~g.running \/ g.paused \/ g.game_over THEN {g}
    ELSE LET g2 == ModeUpdate(g, dt, t)
         IN  {CheckWinConditions(g4) :
                 g4 \in UNION {MovePass(g3, g3.order, t) :
                                  g3 \in AiPass(g2, g2.order, t)}}

-----------------------------------------------------------------------------
(* run_game_loop and the handlers that interleave with it at its awaits *)

\* tick_rate of run_game_loop, 1/30 s, in thirds of a microsecond
TICK_RATE == 100000

\* The inner loop with the test `while move_accumulator > current_speed`
RECURSIVE MoveLoopStrict(_, _, _)
MoveLoopStrict(g, acc, t) ==
    IF acc > 3 * g.current_speed
    THEN UNION {MoveLoopStrict(g1, acc - 3 * g1.current_speed, t) :
                   g1 \in UpdateState(g, g.current_speed, t)}
    ELSE {<<g, acc>>}

\* The inner loop of run_game_loop: `while move_accumulator >= current_speed`
\* at wall-clock time t; the pairs <<state, move_accumulator>> it can leave
RECURSIVE MoveLoop(_, _, _)
MoveLoop(g, acc, t) ==
    IF acc >= 3 * g.current_speed
    THEN UNION {MoveLoop(g1, acc - 3 * g1.current_speed, t) :
                   g1 \in UpdateState(g, g.current_speed, t)}
    ELSE {<<g, acc>>}

\* run_game_loop with a loop that ends without the game_over broadcast
LoopRunSilentEnd(limit) ==
    /\ pc = "run"
    /\ IF state.running /\ ~state.game_over
       THEN /\ iterations < limit
            /\ \E r \in MoveLoop(state, move_accumulator + TICK_RATE, now) :
                  /\ state' = r[1]
                  /\ move_accumulator' = r[2]
            /\ loop_start' = now
            /\ iterations' = iterations + 1
            /\ pc' = "respawn"
            /\ broadcasts' = [broadcasts EXCEPT !.game_state = @ + 1,
                                                !.last = "game_state"]
       ELSE /\ pc' = "done"
            /\ UNCHANGED <<state, move_accumulator, loop_start, iterations,
                           broadcasts>>
    /\ UNCHANGED <<room, now, stalls, lobby>>

\* run_game_loop from the loop test to `await self.broadcast(...)`: one more
\* iteration, or the end of the loop and the game_over broadcast
LoopRun(limit) ==
    /\ pc = "run"
    /\ IF state.running /\ ~state.game_over
       THEN /\ iterations < limit
            /\ pc' = "respawn"
            /\ iterations' = iterations + 1
            /\ loop_start' = now
            /\ broadcasts' = [broadcasts EXCEPT !.game_state = @ + 1,
                                                !.last = "game_state"]
            /\ \E r \in MoveLoop(state, move_accumulator + TICK_RATE, now) :
                  /\ state' = r[1]
                  /\ move_accumulator' = r[2]
       ELSE /\ pc' = "done"
            /\ broadcasts' = [broadcasts EXCEPT !.game_over = @ + 1,
                                                !.last = "game_over"]
            /\ UNCHANGED <<state, move_accumulator, loop_start, iterations>>
    /\ UNCHANGED <<room, now, stalls, lobby>>

\* run_game_loop from the return of the broadcast to the end of the sleep:
\* the respawn pass of High-Score, then the rest of the tick is slept
LoopRespawn ==
    /\ pc = "respawn"
    /\ state' = IF state.mode = "high_score"
                THEN RespawnPass(state, state.order, now) ELSE state
    /\ now' = Max(now, loop_start + TICK_RATE)
    /\ pc' = "run"
    /\ UNCHANGED <<room, move_accumulator, loop_start, iterations, stalls,
                   broadcasts, lobby>>

\* The broadcast takes `seconds` to return while a dead player waits for its
\* respawn: the wall clock runs ahead
Stall(seconds) ==
    /\ pc = "respawn"
    /\ stalls < MaxStalls
    /\ \E p \in PlayerIds(state) : state.players[p].state = "dead"
    /\ now' = now + seconds * 3000000
    /\ stalls' = stalls + 1
    /\ UNCHANGED <<room, state, pc, move_accumulator, loop_start, iterations,
                   broadcasts, lobby>>

\* A direction message of a client reaches handle_input while the loop is
\* suspended at an await
\* GameManager.stop while the loop task waits in its broadcast
\* (pc = "respawn") or in its sleep (pc = "run"): running is cleared and the
\* task is cancelled.  CancelledError is raised at the await and ends the
\* task; inside send_json it meets the `except Exception: pass` of
\* broadcast_to_room, which swallows it on the interpreters where
\* CancelledError is an Exception (before Python 3.8), and the task goes on.
Stop ==
    /\ pc \in {"run", "respawn"}
    /\ state' = [state EXCEPT !.running = FALSE]
    /\ pc' \in {"cancelled"} \cup (IF pc = "respawn" THEN {pc} ELSE {})
    /\ UNCHANGED <<room, now, move_accumulator, loop_start, iterations,
                   stalls, broadcasts, lobby>>

HandleInput(player_id, token) ==
    /\ pc \in {"run", "respawn"}
    /\ state' = HandleInputState(state, player_id, token)
    /\ UNCHANGED <<room, now, pc, move_accumulator, loop_start, iterations,
                   stalls, broadcasts, lobby>>

\* The tokens of the direction messages: the four directions and a token that
\* is none
InputTokens == Directions \cup {"jump"}

\* The ids of the direction messages: the human players of the room and an id
\* that is not in the game
InputIds(r) == {r.humans[i].id : i \in 1..Len(r.humans)} \cup {9}

\* The lengths of the stalls of the broadcast, in seconds
StallSeconds == {2, 21}

-----------------------------------------------------------------------------
(* Specification: one human player on a QW x QH map *)

Human(id, quadrant, death_count) ==
    [id |-> id, quadrant |-> quadrant, death_count |-> death_count]

Rooms ==
    {[game_mode |-> m, barrier_density |-> d, width |-> QW, height |-> QH,
      humans |-> <<Human(1, 0, 0)>>, ai_count |-> 0, ai_difficulties |-> <<>>,
      time_limit |-> "30s"] :
        m \in {"single_player", "high_score"},
        d \in {"none", "moderate"}}

\* The lobby of a room whose game has just been started: one GameManager,
\* registered, its loop task running, the humans set to PLAYING by setup_game
StartedLobby(r) ==
    [game_started |-> TRUE,
     players |-> [p \in {r.humans[i].id : i \in 1..Len(r.humans)}
                     |-> "playing"],
     managers |-> <<[task |-> "running", ticks |-> 0]>>,
     registered |-> 1,
     countdown |-> 0,
     buffered |-> {}]

InitWith(rooms) ==
    /\ room \in rooms
    /\ now = StartTime
    /\ state \in SetupGame(room, now)
    /\ pc = "run"
    /\ move_accumulator = 0
    /\ loop_start = now
    /\ iterations = 0
    /\ stalls = 0
    /\ broadcasts = [game_start |-> 1, game_state |-> 0, game_over |-> 0,
                     last |-> "game_start"]
    /\ lobby = StartedLobby(room)

Init == InitWith(Rooms)

Inputs == \E player_id \in InputIds(room), token \in InputTokens :
              HandleInput(player_id, token)

Stalls == \E seconds \in StallSeconds : Stall(seconds)

Next ==
    \/ LoopRun(MaxIterations)
    \/ LoopRespawn
    \/ Inputs

Spec == Init /\ [][Next]_vars

-----------------------------------------------------------------------------
(* Specification: the first ticks of games on maps with barriers *)

WallsRooms ==
    {[game_mode |-> "single_player", barrier_density |-> d,
      width |-> WallsW,
      height |-> IF d = "dense" THEN DenseH ELSE WallsH,
      humans |-> <<Human(1, 0, 0)>>, ai_count |-> 0, ai_difficulties |-> <<>>,
      time_limit |-> "30s"] : d \in {"sparse", "moderate", "dense"}}

InitWalls == InitWith(WallsRooms)

NextWalls ==
    \/ LoopRun(WallsIterations)
    \/ LoopRespawn
    \/ Inputs

SpecWalls == InitWalls /\ [][NextWalls]_vars

-----------------------------------------------------------------------------
(* Specification: games between moderate barriers, long enough for a snake
   to eat and the food to be replaced *)

BarrierRooms ==
    {[game_mode |-> "single_player", barrier_density |-> "moderate",
      width |-> WallsW, height |-> WallsH,
      humans |-> <<Human(1, 0, 0)>>, ai_count |-> 0, ai_difficulties |-> <<>>,
      time_limit |-> "30s"]}

InitBarrier == InitWith(BarrierRooms)

NextBarrier ==
    \/ LoopRun(BarrierIterations)
    \/ LoopRespawn
    \/ Inputs

SpecBarrier == InitBarrier /\ [][NextBarrier]_vars

-----------------------------------------------------------------------------
(* Specification: the rooms set to Survival, with one human alone and with a
   human and an AI player, up to the first tail decay *)

SurvivalRoom(ai_count) ==
    [game_mode |-> "survival", barrier_density |-> "none",
     width |-> SurvivalW, height |-> SurvivalH,
     humans |-> <<Human(1, 0, 0)>>, ai_count |-> ai_count,
     ai_difficulties |-> <<"world_class">>, time_limit |-> "30s"]

SurvivalRooms == {SurvivalRoom(0), SurvivalRoom(1)}

InitSurvival == InitWith(SurvivalRooms)

NextSurvival ==
    \/ LoopRun(SurvivalIterations)
    \/ LoopRespawn
    \/ Inputs

SpecSurvival == InitSurvival /\ [][NextSurvival]_vars

-----------------------------------------------------------------------------
(* Specification: High-Score games of a human and an AI player with deaths
   and respawns *)

RespawnRoom(prior_deaths, ai_count) ==
    [game_mode |-> "high_score", barrier_density |-> "none",
     width |-> RespawnW, height |-> RespawnH,
     humans |-> <<Human(1, 0, prior_deaths)>>, ai_count |-> ai_count,
     ai_difficulties |-> <<"amateur">>, time_limit |-> "30s"]

RespawnRooms ==
    {RespawnRoom(n, 0) : n \in 0..MaxPriorDeaths} \cup {RespawnRoom(0, 1)}

InitRespawn == InitWith(RespawnRooms)

NextRespawn ==
    \/ LoopRun(RespawnIterations)
    \/ LoopRespawn
    \/ Inputs
    \/ Stalls

SpecRespawn == InitRespawn /\ [][NextRespawn]_vars

-----------------------------------------------------------------------------
(* Specification: High-Score games of an idle human and a "world_class" AI
   player, each in its own quadrant without walls *)

AiRooms ==
    {[game_mode |-> "high_score", barrier_density |-> "none",
      width |-> AiW, height |-> AiH,
      humans |-> <<Human(1, 0, 0)>>, ai_count |-> 1,
      ai_difficulties |-> <<"world_class">>, time_limit |-> "30s"]}

\* The games start with two mice in the quadrant of the human, off the path
\* of its snake; every outcome of the food draws is kept for the AI's quadrant
InitAi ==
    /\ InitWith(AiRooms)
    /\ state.foods[0] = <<NewFood("mouse", 2, 2), NewFood("mouse", 3, 2)>>

NextAi ==
    \/ LoopRun(AiIterations)
    \/ LoopRespawn

SpecAi == InitAi /\ [][NextAi]_vars

-----------------------------------------------------------------------------
(* Specification: High-Score games of two humans and three AI players.  The
   five players get four quadrants: the third AI player is given quadrant 0,
   where the first human plays *)

SharedRooms ==
    {[game_mode |-> "high_score", barrier_density |-> "none",
      width |-> RespawnW, height |-> RespawnH,
      humans |-> <<Human(1, 0, 0), Human(2, 1, 0)>>, ai_count |-> 3,
      ai_difficulties |-> <<"world_class", "world_class", "world_class">>,
      time_limit |-> "30s"]}

InitShared == InitWith(SharedRooms)

NextShared ==
    \/ LoopRun(SharedIterations)
    \/ LoopRespawn
    \/ Inputs

SpecShared == InitShared /\ [][NextShared]_vars

-----------------------------------------------------------------------------
(* Specification: High-Score games of an idle human, with and without an AI
   player, played to the time limit of 30 s.  The loop is a task of the event loop: whenever it can take its
   next step (its broadcast or sleep has returned) it eventually does. *)

TimedRooms == RespawnRooms

InitTimed == InitWith(TimedRooms)

NextTimed ==
    \/ LoopRun(TimedIterations)
    \/ LoopRespawn

SpecTimed ==
    /\ InitTimed
    /\ [][NextTimed]_vars
    /\ WF_vars(LoopRun(TimedIterations))
    /\ WF_vars(LoopRespawn)

-----------------------------------------------------------------------------
(* Specification: High-Score games of two humans played to the time limit of
   30 s.  The players are idle for the first IdleIterations iterations of
   the loop; afterwards a broadcast may stall and the players steer. *)

FinalRooms ==
    {[game_mode |-> "high_score", barrier_density |-> "none",
      width |-> FinalW, height |-> FinalH,
      humans |-> <<Human(1, 0, 0), Human(2, 1, 0)>>, ai_count |-> 0,
      ai_difficulties |-> <<>>, time_limit |-> "30s"]}

InitFinal == InitWith(FinalRooms)

LateInputs == iterations >= IdleIterations /\ Inputs

LateStalls == iterations >= IdleIterations /\ Stalls

NextFinal ==
    \/ LoopRun(TimedIterations)
    \/ LoopRespawn
    \/ LateInputs
    \/ LateStalls

SpecFinal == InitFinal /\ [][NextFinal]_vars

-----------------------------------------------------------------------------
(* Specification: the games of the three modes with a combo: the
   Single-Player and High-Score games of one steering human, and Survival
   games of a steering human against an AI player on small quadrants. *)

HitsRooms ==
    Rooms \cup
    {[game_mode |-> "survival", barrier_density |-> "none",
      width |-> FinalW, height |-> FinalH,
      humans |-> <<Human(1, 0, 0)>>, ai_count |-> 1,
      ai_difficulties |-> <<"world_class">>, time_limit |-> "30s"]}

InitHits == InitWith(HitsRooms)

NextHits ==
    \/ LoopRun(MaxIterations)
    \/ LoopRespawn
    \/ Inputs

SpecHits == InitHits /\ [][NextHits]_vars

-----------------------------------------------------------------------------
(* Specification: the games of SpecHits, where a snake can run into its own
   body, into its own tail and into the quadrant border, together with the
   first tick of the games of SpecWalls, where a snake can run into a wall *)

CollideIterations ==
    IF room.barrier_density = "none" THEN MaxIterations ELSE WallsIterations

InitCollide == InitWith(HitsRooms \cup WallsRooms)

NextCollide ==
    \/ LoopRun(CollideIterations)
    \/ LoopRespawn
    \/ Inputs

SpecCollide == InitCollide /\ [][NextCollide]_vars

-----------------------------------------------------------------------------
(* Specification: Survival games of an idle human and two AI players, each
   on a quadrant with room for one mouse. *)

StreakRooms ==
    {[game_mode |-> "survival", barrier_density |-> "none",
      width |-> FinalW, height |-> FinalH,
      humans |-> <<Human(1, 0, 0)>>, ai_count |-> 2,
      ai_difficulties |-> <<"world_class", "world_class">>,
      time_limit |-> "30s"]}

InitStreak == InitWith(StreakRooms)

NextStreak ==
    \/ LoopRun(StreakIterations)
    \/ LoopRespawn

SpecStreak == InitStreak /\ [][NextStreak]_vars

-----------------------------------------------------------------------------
(* Specification: the Survival games of SpecStreak played on until the tail
   decay: each AI player eats the one mouse of its quadrant, no mouse can
   be placed under its head, and its decay timer runs out twice.  With them
   the High-Score and Single-Player games of humans who do not steer, who
   die at the border and, in High-Score, respawn. *)

InitDecay == InitWith(StreakRooms \cup FinalRooms \cup Rooms)

NextDecay ==
    \/ LoopRun(DecayIterations)
    \/ LoopRespawn

SpecDecay == InitDecay /\ [][NextDecay]_vars

-----------------------------------------------------------------------------
(* Specification: a Single-Player game of a human who goes straight or
   turns left: before a tick the client may send the direction to the left
   of the snake's.  Four such turns in a row lead the head around a square
   of 4 cells. *)

LeftOf(d) ==
    CASE d = "right" -> "up"
      [] d = "up" -> "left"
      [] d = "left" -> "down"
      [] OTHER -> "right"

CircuitRooms ==
    {r \in Rooms : r.game_mode = "single_player" /\ r.barrier_density = "none"}

InitCircuit == InitWith(CircuitRooms)

TurnsLeft ==
    /\ pc = "run"
    /\ iterations % 3 = 2
    /\ \E p \in PlayerIds(state) :
          /\ state.players[p].alive
          /\ state.players[p].next_direction = state.players[p].direction
          /\ HandleInput(p, LeftOf(state.players[p].direction))

NextCircuit ==
    \/ LoopRun(CircuitIterations)
    \/ LoopRespawn
    \/ TurnsLeft

SpecCircuit == InitCircuit /\ [][NextCircuit]_vars

-----------------------------------------------------------------------------
(* Specification: games of rooms whose players joined and left before the
   start *)

\* Room.add_player on the players of a room, in the order of the dict: a full
\* room and a known id are refused, the newcomer gets the lowest of the
\* quadrants 0..3 that no present player holds
AddPlayer(players, id) ==
    LET used == {players[i].quadrant : i \in 1..Len(players)}
        free == {q \in 0..3 : q \notin used}
    IN  IF Len(players) >= 4 THEN players
        ELSE IF id \in {players[i].id : i \in 1..Len(players)} THEN players
        ELSE Append(players,
                    Human(id, IF free = {} THEN 0
                              ELSE CHOOSE q \in free : \A r \in free : q <= r,
                          0))

\* Room.remove_player: the others keep their quadrants
RemovePlayer(players, id) ==
    SelectSeq(players, LAMBDA h : h.id # id)

\* The players a room can have after at most k calls of join_room and
\* leave_room; next_id is RoomManager._next_player_id.  A room whose last
\* player leaves is deleted.
RECURSIVE JoinHistories(_, _, _)
JoinHistories(players, next_id, k) ==
    {players} \cup
    (IF k = 0 THEN {}
     ELSE JoinHistories(AddPlayer(players, next_id), next_id + 1, k - 1)
          \cup UNION {JoinHistories(RemovePlayer(players, players[i].id),
                                    next_id, k - 1) :
                         i \in {j \in 1..Len(players) : Len(players) > 1}})

\* create_room adds the host to the new room
JoinRooms ==
    {[game_mode |-> m, barrier_density |-> "none",
      width |-> SurvivalW, height |-> SurvivalH,
      humans |-> hs, ai_count |-> n, ai_difficulties |-> <<>>,
      time_limit |-> "30s"] :
        m \in {"single_player", "survival", "high_score"},
        hs \in JoinHistories(AddPlayer(<<>>, 1), 2, JoinSteps),
        n \in 0..JoinAi}

InitJoin == InitWith(JoinRooms)

NextJoin == LoopRun(JoinIterations) \/ LoopRespawn

SpecJoin == InitJoin /\ [][NextJoin]_vars

-----------------------------------------------------------------------------
(* Specification: High-Score games with deaths and respawns that are paused
   and resumed while the loop runs *)

\* GameManager.pause, called while the loop is suspended at an await
Pause ==
    /\ pc \in {"run", "respawn"}
    /\ ~state.paused
    /\ state' = [state EXCEPT !.paused = TRUE]
    /\ UNCHANGED <<room, now, pc, move_accumulator, loop_start, iterations,
                   stalls, broadcasts, lobby>>

\* GameManager.resume
Resume ==
    /\ pc \in {"run", "respawn"}
    /\ state.paused
    /\ state' = [state EXCEPT !.paused = FALSE]
    /\ UNCHANGED <<room, now, pc, move_accumulator, loop_start, iterations,
                   stalls, broadcasts, lobby>>

NextPause ==
    \/ LoopRun(PauseIterations)
    \/ LoopRespawn
    \/ Inputs
    \/ Stalls
    \/ Pause
    \/ Resume

SpecPause == InitRespawn /\ [][NextPause]_vars

-----------------------------------------------------------------------------
(* Specification: Survival games played to their end.  The loop task is
   scheduled again after every await: its two steps are weakly fair. *)

InitLive == InitWith({SurvivalRoom(1)} \cup StreakRooms)

\* The human of the small room steers; the human of the rooms of three
\* players is idle
LiveInputs == room.ai_count = 1 /\ Inputs

NextLive ==
    \/ LoopRun(LiveIterations)
    \/ LoopRespawn
    \/ LiveInputs

\* The step of LoopRun(LiveIterations) as pc shows it: it is enabled exactly
\* when LoopRun is (the inner loop always leaves a state), and a step of
\* NextLive is this step exactly when it is a step of LoopRun
LoopRunStep ==
    /\ pc = "run"
    /\ ((state.running /\ ~state.game_over) => iterations < LiveIterations)
    /\ pc' \in {"respawn", "done"}

SpecLive ==
    /\ InitLive
    /\ [][NextLive]_vars
    /\ WF_pc(LoopRunStep)
    /\ WF_vars(LoopRespawn)

-----------------------------------------------------------------------------
(* Specification: games of AI players of the four difficulties, between
   walls, in quadrants of their own and in a quadrant they share *)

GuardRooms ==
    {[game_mode |-> "high_score", barrier_density |-> "moderate",
      width |-> QW, height |-> QH,
      humans |-> <<Human(1, 0, 0)>>, ai_count |-> 1,
      ai_difficulties |-> <<d>>, time_limit |-> "30s"] :
        d \in {"amateur"}}
    \cup {[SurvivalRoom(1) EXCEPT !.ai_difficulties = <<d>>] :
             d \in {"semi_pro", "pro", "world_class"}}
    \cup StreakRooms \cup SharedRooms

\* In the walled rooms the quadrant of the human starts with two mice off
\* the path of its snake; every outcome of the draws is kept for the
\* quadrant of the AI player
InitGuard ==
    /\ InitWith(GuardRooms)
    /\ room.barrier_density = "moderate"
          => state.foods[0] = <<NewFood("mouse", 2, 2), NewFood("mouse", 3, 2)>>

NextGuard == LoopRun(GuardIterations) \/ LoopRespawn

SpecGuard == InitGuard /\ [][NextGuard]_vars

-----------------------------------------------------------------------------
(* Specification: games long enough for the speed policies to act.  A
   High-Score game of a human who does not steer, with a limit of 2
   minutes, over its first speed step at 60 s; Survival games of a human and
   two AI players over the speed ramp at 15 s; Single-Player games of a
   human and an AI player that eats. *)

SpeedRooms ==
    {[game_mode |-> "high_score", barrier_density |-> "none",
      width |-> FinalW, height |-> FinalH,
      humans |-> <<Human(1, 0, 0)>>, ai_count |-> 0,
      ai_difficulties |-> <<>>, time_limit |-> "2m"],
     [game_mode |-> "single_player", barrier_density |-> "none",
      width |-> SpeedW, height |-> SpeedH,
      humans |-> <<Human(1, 0, 0)>>, ai_count |-> 1,
      ai_difficulties |-> <<"world_class">>, time_limit |-> "30s"]}
    \cup StreakRooms

InitSpeed == InitWith(SpeedRooms)

SpeedIterations ==
    CASE state.mode = "single_player" -> SpeedSingleIterations
      [] state.mode = "survival" -> SpeedSurvivalIterations
      [] OTHER -> SpeedHighScoreIterations

NextSpeed ==
    \/ LoopRun(SpeedIterations)
    \/ LoopRespawn

SpecSpeed == InitSpeed /\ [][NextSpeed]_vars

-----------------------------------------------------------------------------
(* Specification: High-Score games of an idle human in a room that is
   stopped at some point.  The loop task is resumed whenever its await has
   returned. *)

InitStop == InitWith(RespawnRooms)

NextStop ==
    \/ LoopRun(RespawnIterations)
    \/ LoopRespawn
    \/ Stop

SpecStop ==
    /\ InitStop
    /\ [][NextStop]_vars
    /\ WF_vars(LoopRun(RespawnIterations))
    /\ WF_vars(LoopRespawn)

-----------------------------------------------------------------------------
(* Specification: the lobby of one room of two humans, the host (player 1)
   and a guest.  Every connection has its own receive loop, which awaits the
   handler of one message before it reads the next; the handlers and the
   loop tasks interleave at their awaits.  The loop of a GameManager is
   reduced to the status of its task and a count of its iterations. *)

GameVars == <<room, state, now, pc, move_accumulator, loop_start, iterations,
              stalls, broadcasts>>

HostId == 1

\* Room.can_start (min_players is 1)
CanStart(l) ==
    /\ ~l.game_started
    /\ \A p \in DOMAIN l.players : l.players[p] = "ready"

\* ConnectionManager._handle_ready: the player's state becomes READY or
\* WAITING, whatever it was
HandleReady(p, ready) ==
    /\ ~(p = HostId /\ lobby.countdown # 0)
    /\ lobby' = [lobby EXCEPT !.players[p] =
                                 IF ready THEN "ready" ELSE "waiting"]
    /\ UNCHANGED GameVars

\* ConnectionManager._handle_start_game up to `await asyncio.sleep(3)`:
\* game_started is set, a GameManager is created and registered
HandleStartGame ==
    /\ lobby.countdown = 0
    /\ CanStart(lobby)
    /\ Len(lobby.managers) < MaxManagers
    /\ lobby' = [lobby EXCEPT
                    !.game_started = TRUE,
                    !.managers = Append(@, [task |-> "none", ticks |-> 0]),
                    !.registered = Len(lobby.managers) + 1,
                    !.countdown = Len(lobby.managers) + 1]
    /\ UNCHANGED GameVars

\* The end of the countdown: game_manager.start() creates the loop task of
\* the GameManager the handler created, and the task's setup_game sets the
\* room's players to PLAYING
CountdownEnd ==
    /\ lobby.countdown # 0
    /\ lobby' = [lobby EXCEPT
                    !.managers[lobby.countdown].task = "running",
                    !.players = [p \in DOMAIN @ |-> "playing"],
                    !.countdown = 0]
    /\ UNCHANGED GameVars

\* GameManager.stop as the lobby sees it: a running task is cancelled; a
\* GameManager without a task (game_task is None) only has running cleared
StopTask(m) ==
    IF m.task = "running" THEN [m EXCEPT !.task = "cancelled"] ELSE m

\* ConnectionManager._handle_return_to_lobby: the registered GameManager is
\* stopped and removed from game_managers, the room is reset for a rematch
HandleReturnToLobby(p) ==
    /\ ~(p = HostId /\ lobby.countdown # 0)
    /\ lobby' = [lobby EXCEPT
                    !.managers = IF lobby.registered # 0
                                 THEN [@ EXCEPT ![lobby.registered] =
                                                    StopTask(@)]
                                 ELSE @,
                    !.registered = 0,
                    !.game_started = FALSE,
                    !.players = [q \in DOMAIN @ |-> "waiting"],
                    !.buffered = {}]
    /\ UNCHANGED GameVars

\* ConnectionManager._handle_input: the registered GameManager buffers the
\* direction in the snake of the room's Player object
LobbyInput(p) ==
    /\ ~(p = HostId /\ lobby.countdown # 0)
    /\ lobby.registered # 0
    /\ lobby.managers[lobby.registered].task = "running"
    /\ lobby' = [lobby EXCEPT !.buffered = @ \cup {p}]
    /\ UNCHANGED GameVars

\* One iteration of the loop of GameManager number m: its update moves the
\* snakes of the room's Player objects and uses up the buffered directions
LoopStep(m) ==
    /\ lobby.managers[m].task = "running"
    /\ lobby.managers[m].ticks < MaxTicks
    /\ lobby' = [lobby EXCEPT !.managers[m].ticks = @ + 1,
                              !.buffered = {}]
    /\ UNCHANGED GameVars

\* The loop of GameManager number m ends with the game
LoopEnd(m) ==
    /\ lobby.managers[m].task = "running"
    /\ lobby' = [lobby EXCEPT !.managers[m].task = "finished"]
    /\ UNCHANGED GameVars

LobbyRooms ==
    {[game_mode |-> "high_score", barrier_density |-> "none",
      width |-> FinalW, height |-> FinalH,
      humans |-> <<Human(1, 0, 0), Human(2, 1, 0)>>, ai_count |-> 0,
      ai_difficulties |-> <<>>, time_limit |-> "30s"]}

\* The room before its first game: no GameManager, nobody ready
InitLobby ==
    /\ room \in LobbyRooms
    /\ now = StartTime
    /\ state = [running |-> FALSE, paused |-> FALSE, game_over |-> FALSE]
    /\ pc = "idle"
    /\ move_accumulator = 0
    /\ loop_start = now
    /\ iterations = 0
    /\ stalls = 0
    /\ broadcasts = [game_start |-> 0, game_state |-> 0, game_over |-> 0,
                     last |-> "none"]
    /\ lobby = [game_started |-> FALSE,
                players |-> [p \in {1, 2} |-> "waiting"],
                managers |-> <<>>,
                registered |-> 0,
                countdown |-> 0,
                buffered |-> {}]

Readies == \E p \in DOMAIN lobby.players, ready \in BOOLEAN :
               HandleReady(p, ready)

Returns == \E p \in DOMAIN lobby.players : HandleReturnToLobby(p)

LobbyInputs == \E p \in DOMAIN lobby.players : LobbyInput(p)

LoopSteps == \E m \in 1..Len(lobby.managers) : LoopStep(m)

LoopEnds == \E m \in 1..Len(lobby.managers) : LoopEnd(m)

NextLobby ==
    \/ Readies
    \/ HandleStartGame
    \/ CountdownEnd
    \/ Returns
    \/ LobbyInputs
    \/ LoopSteps
    \/ LoopEnds

SpecLobby == InitLobby /\ [][NextLobby]_vars

-----------------------------------------------------------------------------
(* Claims *)

\* C1: in every reachable state, whatever handle_input calls, AI decisions,
\* ticks and respawns came before, the next_direction of a living snake is
\* not the opposite of its direction: a reversing input or AI choice was not
\* accepted.
C1_NoReversal ==
    \A p \in PlayerIds(state) :
        state.players[p].alive =>
            state.players[p].next_direction
                # Opposite(state.players[p].direction)

\* C1 witness: a human snake that died, respawned and then took a turn from
\* an input, next to an AI snake that turned on a decision of its own
C1_Witness ==
    /\ room.ai_count = 1
    /\ state.players[1].alive
    /\ state.players[1].death_count > 0
    /\ state.players[1].next_direction # state.players[1].direction
    /\ state.players[-1].alive
    /\ state.players[-1].ai_last_decision > StartTime
    /\ state.players[-1].body[1][1] # state.players[-1].body[3][1]
    /\ state.players[-1].body[1][2] # state.players[-1].body[3][2]

\* C2: in a tick in which the new head of a living snake lands on a cell of a
\* food whose recovery has run out and whose health is above 1, the snake's
\* score grows by exactly floor(value / max_health) times the barrier
\* multiplier, truncated; the food stays in the pool with its health one
\* lower and its hit_recovery at the window of its category (medium 0.8 s,
\* large 1.5 s, huge 2.5 s).  For the lizard (120 points, 3 hit points,
\* medium) at multiplier 1.0 that is 40 points, health 2 and 0.8 s.
C2_PartialHit ==
    [][\A p \in PlayerIds(state) :
        LET pl == state.players[p]
            q == pl.quadrant
            v == DirVector(pl.next_direction)
            new_head == <<pl.body[1][1] + v[1], pl.body[1][2] + v[2]>>
        IN  \A i \in 1..Len(state.foods[q]) :
              LET food == state.foods[q][i]
                  animal == ANIMAL_TYPES[food.kind]
                  window == CASE animal.category = "medium" -> 800000
                              [] animal.category = "large" -> 1500000
                              [] animal.category = "huge" -> 2500000
                              [] OTHER -> 0
                  percent == CASE state.barrier_density = "sparse" -> 125
                               [] state.barrier_density = "moderate" -> 150
                               [] state.barrier_density = "dense" -> 200
                               [] OTHER -> 100
              IN  (/\ state'.elapsed_time = state.elapsed_time
                                                + state.current_speed
                   /\ pl.alive
                   /\ state'.players[p].alive
                   /\ state'.players[p].body[1] = new_head
                   /\ new_head \in FoodCells(food)
                   /\ food.hit_recovery - state.current_speed <= 0
                   /\ food.health > 1)
                  => /\ state'.players[p].score =
                            pl.score
                            + ((animal.value \div animal.health) * percent)
                                  \div 100
                     /\ Len(state'.foods[q]) = Len(state.foods[q])
                     /\ state'.foods[q][i] =
                            [food EXCEPT !.health = food.health - 1,
                                         !.hit_recovery = window]
                     /\ (food.kind = "lizard" /\ food.health = 3
                                               /\ percent = 100)
                        => /\ state'.players[p].score = pl.score + 40
                           /\ state'.foods[q][i].health = 2
                           /\ state'.foods[q][i].hit_recovery = 800000]_vars

\* C2 witness: a snake whose head is on a lizard it has just struck for the
\* first time: 40 points, health 2, recovery 0.8 s
C2_Witness ==
    \E p \in PlayerIds(state) :
        \E i \in 1..Len(state.foods[state.players[p].quadrant]) :
            LET food == state.foods[state.players[p].quadrant][i]
            IN  /\ state.barrier_density = "none"
                /\ state.players[p].alive
                /\ state.players[p].body[1] \in FoodCells(food)
                /\ food.kind = "lizard"
                /\ food.health = 2
                /\ food.hit_recovery = 800000
                /\ state.players[p].score = 40
                /\ Len(state.players[p].body) = 4

\* C3: a food whose hit_recovery is still above 0 when the snakes move in a
\* tick keeps its health and stays in the pool, its recovery only counted
\* down; a snake whose new head lands on one of its cells in that tick keeps
\* its score, its length and its combo (the combo is 0 instead when the
\* snake's combo timer ran out in that tick).  So the food is struck again
\* only after the window has fully counted down.
C3_RecoveryImmunity ==
    [][\A q \in DOMAIN state.foods :
        \A i \in 1..Len(state.foods[q]) :
          LET food == state.foods[q][i]
              dt == state.current_speed
          IN  (/\ state'.elapsed_time = state.elapsed_time + dt
               /\ food.hit_recovery - dt > 0)
              => /\ \E j \in 1..Len(state'.foods[q]) :
                        state'.foods[q][j] =
                            [food EXCEPT !.hit_recovery = food.hit_recovery - dt]
                 /\ \A p \in PlayerIds(state) :
                      LET pl == state.players[p]
                          v == DirVector(pl.next_direction)
                          new_head == <<pl.body[1][1] + v[1],
                                        pl.body[1][2] + v[2]>>
                          timed_out == /\ state.mode \in {"high_score",
                                                           "single_player"}
                                       /\ pl.combo_timer > 0
                                       /\ pl.combo_timer - dt <= 0
                      IN  (/\ pl.alive /\ pl.quadrant = q
                           /\ state'.players[p].alive
                           /\ state'.players[p].body[1] = new_head
                           /\ new_head \in FoodCells(food))
                          => /\ state'.players[p].score = pl.score
                             /\ state'.players[p].combo =
                                    IF timed_out THEN 0 ELSE pl.combo
                             /\ Len(state'.players[p].body) = Len(pl.body)]_vars

\* C3 witness: the head of a living snake is on a cell of a food that was
\* struck in an earlier tick and is still recovering
C3_Witness ==
    \E p \in PlayerIds(state) :
        \E i \in 1..Len(state.foods[state.players[p].quadrant]) :
            LET food == state.foods[state.players[p].quadrant][i]
            IN  /\ state.players[p].alive
                /\ state.players[p].body[1] \in FoodCells(food)
                /\ food.hit_recovery > 0
                /\ food.hit_recovery
                       < FOOD_HIT_RECOVERY(ANIMAL_TYPES[food.kind].category)
                /\ food.health < ANIMAL_TYPES[food.kind].health

C5_HealthBounds ==
    /\ \A q \in DOMAIN state.foods :
         \A i \in 1..Len(state.foods[q]) :
            /\ 1 <= state.foods[q][i].health
            /\ state.foods[q][i].health
                   <= ANIMAL_TYPES[state.foods[q][i].kind].health
    /\ [][\A q \in DOMAIN state'.foods :
            \A j \in 1..Len(state'.foods[q]) :
               LET after == state'.foods[q][j]
               IN  /\ 1 <= after.health
                   /\ after.health <= ANIMAL_TYPES[after.kind].health
                   /\ \A i \in 1..Len(state.foods[q]) :
                        LET before == state.foods[q][i]
                        IN  (/\ before.kind = after.kind
                             /\ before.x = after.x
                             /\ before.y = after.y)
                            => after.health <= before.health]_vars

\* C5 witness: a food that was struck in an earlier tick is still in the pool
\* with part of its health, next to a replacement for an eaten one
C5_Witness ==
    \E q \in DOMAIN state.foods :
        \E i \in 1..Len(state.foods[q]) :
            /\ state.foods[q][i].health
                   < ANIMAL_TYPES[state.foods[q][i].kind].health
            /\ state.foods[q][i].hit_recovery
                   < FOOD_HIT_RECOVERY(
                         ANIMAL_TYPES[state.foods[q][i].kind].category)
            /\ \E p \in PlayerIds(state) :
                  /\ state.players[p].quadrant = q
                  /\ state.players[p].combo > 0

\* C6: the foods placed at setup, and every food that a step adds to a pool,
\* have all their cells off the walls of the quadrant, off the cells of the
\* other foods of the quadrant, and off the bodies of the snakes of the
\* quadrant as they are when the food is spawned (the head just pushed by the
\* move that ate included).
C6_SpawnDisjoint ==
    /\ \A q \in DOMAIN state.foods :
         \A i \in 1..Len(state.foods[q]) :
            LET cells == FoodCells(state.foods[q][i])
            IN  /\ cells \cap WallPositions(state.walls[q]) = {}
                /\ \A j \in 1..Len(state.foods[q]) :
                      j # i => cells \cap FoodCells(state.foods[q][j]) = {}
                /\ \A p \in PlayerIds(state) :
                      state.players[p].quadrant = q
                      => cells \cap SeqToSet(state.players[p].body) = {}
    /\ [][\A q \in DOMAIN state'.foods :
            \A i \in 1..Len(state'.foods[q]) :
               LET food == state'.foods[q][i]
                   cells == FoodCells(food)
                   added == \A k \in 1..Len(state.foods[q]) :
                               \/ state.foods[q][k].kind # food.kind
                               \/ state.foods[q][k].x # food.x
                               \/ state.foods[q][k].y # food.y
               IN  added
                   => /\ cells \cap WallPositions(state'.walls[q]) = {}
                      /\ \A j \in 1..Len(state'.foods[q]) :
                            j # i
                            => cells \cap FoodCells(state'.foods[q][j]) = {}
                      /\ \A p \in PlayerIds(state') :
                            state'.players[p].quadrant = q
                            => cells \cap SeqToSet(state'.players[p].body)
                                   = {}]_vars

\* C6 witness: in a quadrant with a wall, at multiplier 1.5, a snake has just
\* eaten a mouse and the pool holds the replacement
C6_Witness ==
    \E p \in PlayerIds(state) :
        /\ state.barrier_density = "moderate"
        /\ state.walls[state.players[p].quadrant] # {}
        /\ state.players[p].alive
        /\ state.players[p].combo_timer = COMBO_WINDOW
        /\ state.players[p].score = 123
        /\ Len(state.foods[state.players[p].quadrant]) = 2

\* A cell of the quadrant's spawn region (the anchors of a one-cell animal,
\* x_min + 2 .. x_max - 3 by y_min + 2 .. y_max - 3) that is free of snakes,
\* foods and walls
FreeSpawnCells(g, q) ==
    LET b == g.quadrant_bounds[q]
    IN  {c \in ((b.x_min + 2)..(b.x_max - 3)) \X ((b.y_min + 2)..(b.y_max - 3)) :
            c \notin Occupied(g, q)}

\* C7: food replacement is guaranteed: in a quadrant that has a snake and
\* whose spawn region still holds a free cell, no step leaves the pool with a
\* number of foods other than the one it had, a consumed food being replaced
\* in the tick that consumes it.
C7_Replaced ==
    [][\A q \in DOMAIN state.foods :
          ( /\ \E p \in PlayerIds(state) : state.players[p].quadrant = q
            /\ FreeSpawnCells(state', q) # {} )
          => Len(state'.foods[q]) = Len(state.foods[q])]_vars


\* C8: every wall layout that _generate_walls leaves in a quadrant either
\* lets the 4-neighbour flood fill from the quadrant's centre reach at least
\* half of the quadrant's cells, or is the sparse fallback installed after
\* the 5 failed attempts; no step of the game changes the layout afterwards.
C8_Connectivity ==
    /\ \A q \in DOMAIN state.walls :
          \/ state.walls_fallback[q]
          \/ 2 * Cardinality(ReachableFromCenter(state.quadrant_bounds[q],
                                                 state.walls[q]))
                >= Cardinality(BoundsCells(state.quadrant_bounds[q]))
    /\ [][/\ state'.walls = state.walls
          /\ state'.walls_fallback = state.walls_fallback]_vars

\* C8 witness: the game runs on a sparse layout that was accepted with a
\* wall in it, the flood fill reaching every cell that is not on the wall
C8_Witness ==
    /\ pc = "respawn"
    /\ state.barrier_density = "sparse"
    /\ ~state.walls_fallback[0]
    /\ state.walls[0] # {}
    /\ LET reach == Cardinality(ReachableFromCenter(state.quadrant_bounds[0],
                                                    state.walls[0]))
       IN  /\ 2 * reach >= WallsW * WallsH
           /\ reach = WallsW * WallsH
                        - Cardinality(WallPositions(state.walls[0]))

\* C9 as claimed: in a room set to Survival with one snake, a snake that
\* has not eaten (its body has the minimum length) when its first decay
\* interval of 6 s has elapsed is dead, alive_count is 0 and the game is over
\* with no winner.
C9_AsClaimed ==
    ( /\ room.game_mode = "survival"
      /\ Len(room.humans) + room.ai_count = 1
      /\ state.elapsed_time >= 6000000
      /\ \A p \in PlayerIds(state) : /\ state.players[p].score = 0
                                     /\ Len(state.players[p].body) = 3 )
    => /\ \A p \in PlayerIds(state) : ~state.players[p].alive
       /\ state.alive_count = 0
       /\ state.game_over
       /\ state.winner_id = NoWinner

\* C9: a game is in Survival mode only with two or more snakes; there, a
\* living snake whose body has the minimum length (3) when its decay timer
\* fires is dead after that tick (decay is not a no-op), alive_count counts
\* the living snakes, and when it reaches 0 in that tick the game is over
\* with winner_id undefined.
C9_Starvation ==
    [][( /\ state.mode = "survival"
         /\ state'.elapsed_time = state.elapsed_time + state.current_speed )
       => /\ Len(state.order) >= 2
          /\ \A p \in PlayerIds(state) :
                ( /\ state.players[p].alive
                  /\ Len(state.players[p].body) <= DECAY_MIN_LENGTH
                  /\ state.players[p].decay_timer - state.current_speed <= 0 )
                => /\ ~state'.players[p].alive
                   /\ state'.players[p].state = "dead"
                   /\ state'.alive_count
                         = Cardinality({o \in PlayerIds(state') :
                                           state'.players[o].alive})
                   /\ state'.alive_count = 0
                         => /\ state'.game_over
                            /\ ~state'.running
                            /\ state'.winner_id = NoWinner]_vars

\* C9 witness: both snakes of a Survival game starved in the tick of the
\* first decay, 6 s into the game, and the game is over without a winner
C9_Witness ==
    /\ state.mode = "survival"
    /\ state.elapsed_time = 6000000
    /\ state.game_over
    /\ state.alive_count = 0
    /\ state.winner_id = NoWinner
    /\ \A p \in PlayerIds(state) : /\ ~state.players[p].alive
                                   /\ state.players[p].decay_timer <= 0
                                   /\ Len(state.players[p].body) = 3

FoodDistance(c, food) ==
    CHOOSE n \in {Manhattan(c, o) : o \in FoodCells(food)} :
        \A o \in FoodCells(food) : n <= Manhattan(c, o)

\* Player p is a living "world_class" AI snake that takes a decision in this
\* update of the game, alone in a quadrant without walls with a single food,
\* which can be eaten and is not under its head
AiChasesSingleFood(p) ==
    /\ state'.elapsed_time = state.elapsed_time + state.current_speed
    /\ p \in PlayerIds(state)
    /\ state.players[p].is_ai
    /\ state.players[p].ai_difficulty = "world_class"
    /\ state.players[p].alive
    /\ state'.players[p].ai_last_decision # state.players[p].ai_last_decision
    /\ LET q == state.players[p].quadrant
       IN  /\ GetWallPositions(state, q) = {}
           /\ \A o \in PlayerIds(state) \ {p} : state.players[o].quadrant # q
           /\ q \in DOMAIN state.foods
           /\ Len(state.foods[q]) = 1
           /\ Edible(state.foods[q][1])
           /\ FoodDistance(state.players[p].body[1], state.foods[q][1]) > 0

\* The distance from the head of p to the food it chased, before and after
\* the update
AiDistanceBefore(p) ==
    FoodDistance(state.players[p].body[1],
                 state.foods[state.players[p].quadrant][1])

AiDistanceAfter(p) ==
    FoodDistance(state'.players[p].body[1],
                 state.foods[state.players[p].quadrant][1])

AiCanApproach(p) ==
    \E d \in Directions \ {Opposite(state.players[p].direction)} :
        FoodDistance(Step(state.players[p].body[1], d),
                     state.foods[state.players[p].quadrant][1])
           < AiDistanceBefore(p)

\* The snake of p has its starting length and its quadrant is at least 3
\* cells wide and high
AiStartingSnake(p) ==
    /\ Len(state.players[p].body) = 3
    /\ LET b == state.quadrant_bounds[state.players[p].quadrant]
       IN  b.x_max - b.x_min >= 3 /\ b.y_max - b.y_min >= 3

NewHead(p) == Step(state.players[p].body[1], state'.players[p].direction)

\* The player that update moves last: the bodies of the other snakes are
\* those of the next state when it moves
LastMover == state.order[Len(state.order)]

\* C12 as claimed: in an update, a living snake whose new head cell is a
\* body cell of another living snake of its quadrant is killed by that move:
\* it is not alive afterwards and its head was not pushed.  Stated for the
\* snake that moves last in the update.
C12_AsClaimed ==
    [][( /\ state'.elapsed_time = state.elapsed_time + state.current_speed
         /\ state.players[LastMover].alive
         /\ \E o \in PlayerIds(state) \ {LastMover} :
               /\ state'.players[o].alive
               /\ state'.players[o].quadrant
                     = state.players[LastMover].quadrant
               /\ NewHead(LastMover) \in SeqToSet(state'.players[o].body) )
       => /\ ~state'.players[LastMover].alive
          /\ state'.players[LastMover].body
                = state.players[LastMover].body]_vars

\* The players whose snakes are alive
Living(g) == {p \in PlayerIds(g) : g.players[p].alive}

\* C13: in Survival mode alive_count is the number of living snakes, and at
\* the end of every tick game_over is set exactly when alive_count <= 1: it
\* is set by the first tick that leaves one snake or none and never while
\* two or more snakes are alive; running is cleared with it; when exactly
\* one snake is alive in the finished game, winner_id is its player and that
\* player's rank is 1.
C13_SurvivalEnd ==
    state.mode = "survival"
    => /\ state.alive_count = Cardinality(Living(state))
       /\ state.game_over <=> state.alive_count <= 1
       /\ state.game_over => ~state.running
       /\ \A p \in PlayerIds(state) :
             (state.game_over /\ Living(state) = {p})
             => /\ state.winner_id = p
                /\ state.players[p].rank = 1

\* C13 witness: a Survival game of two snakes is over, the human's snake
\* died and the AI's snake is the one alive
C13_Witness ==
    /\ state.mode = "survival"
    /\ state.game_over
    /\ Living(state) = {-1}
    /\ state.winner_id = -1
    /\ state.players[1].rank = 2

\* C14: when the last two living snakes of a Survival game die in the same
\* tick, the game is over after that tick with running false, alive_count 0
\* and winner_id undefined, and update, called again with any dt, leaves the
\* game state as it is; no later step changes the state of a game that
\* ended in such a draw.
C14_Draw ==
    /\ [][( /\ state.mode = "survival"
            /\ Cardinality(Living(state)) = 2
            /\ Living(state') = {} )
          => /\ state'.game_over
             /\ ~state'.running
             /\ state'.alive_count = 0
             /\ state'.winner_id = NoWinner
             /\ \A dt \in {MIN_SPEED, BASE_SPEED} :
                   UpdateState(state', dt, now') = {state'}]_vars
    /\ [][( /\ state.mode = "survival"
            /\ state.game_over
            /\ Living(state) = {} )
          => state' = state]_vars

\* C14 witness: the two snakes of a Survival game died in one tick; the loop
\* has ended on the draw, no player is the winner
C14_Witness ==
    /\ state.mode = "survival"
    /\ pc = "done"
    /\ state.game_over
    /\ ~state.running
    /\ Living(state) = {}
    /\ state.alive_count = 0
    /\ state.winner_id = NoWinner
    /\ state.players[1].death_time = state.players[-1].death_time

\* C15: in High-Score mode the game is over exactly when elapsed_time has
\* reached time_limit: game_over is set by the first tick that reaches the
\* limit and by nothing before it, whatever the number of deaths and also
\* while no snake is alive; and the game, which is never paused, eventually
\* is over.
C15_TimeLimit ==
    /\ [](state.mode = "high_score"
          => (state.game_over <=> state.elapsed_time >= state.time_limit))
    /\ <>state.game_over

\* C15 witness: a High-Score game is over at the tick that reached its time
\* limit of 30 s, after its only player had died five times
C15_Witness ==
    /\ state.mode = "high_score"
    /\ state.game_over
    /\ state.elapsed_time = state.time_limit
    /\ state.time_limit = 30000000
    /\ Len(state.order) = 1
    /\ state.players[1].death_count >= 5
    /\ state.alive_count = 0

\* C16 as claimed: in the state of a High-Score game that is over, the ranks
\* of the N players are the numbers 1..N, a player with a higher score has
\* a smaller rank, and winner_id is a player whose score is the maximum.
C16_AsClaimed ==
    (state.mode = "high_score" /\ state.game_over)
    => /\ {state.players[p].rank : p \in PlayerIds(state)}
             = 1..Cardinality(PlayerIds(state))
       /\ \A p, q \in PlayerIds(state) :
             state.players[p].score > state.players[q].score
             => state.players[p].rank < state.players[q].rank
       /\ state.winner_id \in PlayerIds(state)
       /\ \A q \in PlayerIds(state) :
             state.players[state.winner_id].score >= state.players[q].score

\* The combo and the combo timer of a player when the snakes move in an
\* update of dt: the High-Score and Single-Player updates count the timer of
\* a living snake down first and clear the combo when it runs out
MovingCombo(pl, dt) ==
    IF /\ state.mode \in {"high_score", "single_player"}
       /\ pl.alive
       /\ pl.combo_timer > 0
    THEN [combo |-> IF pl.combo_timer - dt <= 0 THEN 0 ELSE pl.combo,
          combo_timer |-> pl.combo_timer - dt]
    ELSE [combo |-> pl.combo, combo_timer |-> pl.combo_timer]

\* C17: when the snakes move in a tick, a hit that leaves the food's health
\* above 0 leaves the snake's combo and combo timer as they were and credits
\* floor(value / max_health) times the barrier multiplier, truncated, with
\* no combo factor; a hit that brings the health to 0 raises the combo by
\* exactly 1, sets the timer to 2 s and credits that per-hit score times
\* (1 + 0.1 * combo) for the raised combo, truncated; a snake that moves
\* without a finishing hit keeps its combo.
C17_ComboOnKills ==
    [][\A p \in PlayerIds(state) :
        LET pl == state.players[p]
            q == pl.quadrant
            dt == state.current_speed
            v == DirVector(state'.players[p].direction)
            new_head == <<pl.body[1][1] + v[1], pl.body[1][2] + v[2]>>
            before == MovingCombo(pl, dt)
            percent == CASE state.barrier_density = "sparse" -> 125
                         [] state.barrier_density = "moderate" -> 150
                         [] state.barrier_density = "dense" -> 200
                         [] OTHER -> 100
            struck == {i \in 1..Len(state.foods[q]) :
                         /\ new_head \in FoodCells(state.foods[q][i])
                         /\ state.foods[q][i].hit_recovery - dt <= 0}
        IN  (/\ state'.elapsed_time = state.elapsed_time + dt
             /\ state.mode \in {"high_score", "single_player", "survival"}
             /\ pl.alive
             /\ state'.players[p].alive
             /\ state'.players[p].body[1] = new_head)
            => /\ \A i \in struck :
                    LET food == state.foods[q][i]
                        animal == ANIMAL_TYPES[food.kind]
                        hit == ((animal.value \div animal.health) * percent)
                                   \div 100
                        combo == before.combo + 1
                    IN  IF food.health > 1
                        THEN /\ state'.players[p].combo = before.combo
                             /\ state'.players[p].combo_timer
                                    = before.combo_timer
                             /\ state'.players[p].score = pl.score + hit
                        ELSE /\ state'.players[p].combo = combo
                             /\ state'.players[p].combo_timer = 2000000
                             /\ state'.players[p].score =
                                    pl.score + (hit * (10 + combo)) \div 10
                                    - (IF <<hit, combo>> \in ComboFloatShort
                                       THEN 1 ELSE 0)
               /\ (\A i \in struck : state.foods[q][i].health > 1)
                  => state'.players[p].combo = before.combo]_vars

\* C17 witness: a snake with its head on a lizard it has just struck for the
\* first time, one tick after it ate a mouse: combo 1, 1.9 s left on the
\* combo timer, 82 + 40 points
C17_Witness ==
    \E p \in PlayerIds(state) :
        \E i \in 1..Len(state.foods[state.players[p].quadrant]) :
            LET food == state.foods[state.players[p].quadrant][i]
            IN  /\ state.barrier_density = "none"
                /\ state.players[p].alive
                /\ state.players[p].body[1] \in FoodCells(food)
                /\ food.kind = "lizard"
                /\ food.health = 2
                /\ food.hit_recovery = 800000
                /\ state.players[p].combo = 1
                /\ state.players[p].combo_timer = 1900000
                /\ state.players[p].score = 122

\* Simulated time that has at least passed since the last finishing hit of
\* a living snake.  A finishing hit sets combo_timer to 2 s, and the
\* High-Score and Single-Player updates count it down; in Survival a
\* finishing hit sets decay_timer to the decay interval, which every update
\* counts down and only a tail decay sets back.
QuietTime(p) ==
    LET pl == state.players[p]
    IN  IF state.mode = "survival"
        THEN Max(0, GetSurvivalDecayInterval(state.elapsed_time)
                        - pl.decay_timer)
        ELSE Max(0, COMBO_WINDOW - pl.combo_timer)

\* C18 as claimed: in High-Score, Single-Player and Survival games a living
\* snake whose last finishing hit is more than 2 s of simulated time ago has
\* combo 0.
C18_AsClaimed ==
    \A p \in PlayerIds(state) :
        (/\ state.mode \in {"high_score", "single_player", "survival"}
         /\ state.players[p].alive
         /\ QuietTime(p) > COMBO_WINDOW)
        => state.players[p].combo = 0

\* C19 as claimed: when a game was stopped while its loop ran (running is
\* cleared and the game is not over), the game_over message has been
\* broadcast or the loop task is still on its way to that broadcast.
C19_AsClaimed ==
    (~state.running /\ ~state.game_over)
    => \/ broadcasts.game_over > 0
       \/ pc \in {"run", "respawn"}

\* C20: game_start is the first message and is sent once; every iteration of
\* the loop sends one game_state; the update that sets game_over is followed
\* by the game_state of its iteration, the next loop test ends the loop, and
\* one game_over message is sent, as the last message: after it no message
\* is sent and no update runs.  Every game that is over gets its game_over
\* message.
C20_BroadcastOrder ==
    /\ [](/\ broadcasts.game_start = 1
          /\ broadcasts.game_state = iterations
          /\ broadcasts.game_over = (IF pc = "done" THEN 1 ELSE 0)
          /\ (broadcasts.last = "game_start") <=> (iterations = 0
                                                    /\ pc = "run")
          /\ (broadcasts.last = "game_over") <=> (pc = "done")
          /\ pc = "done" => state.game_over)
    /\ [][/\ (~state.game_over /\ state'.game_over)
             => /\ broadcasts'.game_state = broadcasts.game_state + 1
                /\ broadcasts'.last = "game_state"
                /\ broadcasts'.game_over = 0
          /\ state.game_over
             => /\ state'.elapsed_time = state.elapsed_time
                /\ broadcasts'.game_state = broadcasts.game_state
          /\ (state.game_over /\ pc = "run")
             => /\ broadcasts'.game_over = 1
                /\ state' = state
          /\ pc = "done" => UNCHANGED <<state, broadcasts, pc>>]_vars
    /\ (state.game_over ~> (broadcasts.last = "game_over"))

\* C20 witness: the end of a game that reached its time limit of 30 s in
\* the 900th iteration: 900 game_state messages, then game_over
C20_Witness ==
    /\ pc = "done"
    /\ state.game_over
    /\ state.elapsed_time = 30000000
    /\ broadcasts = [game_start |-> 1, game_state |-> 900, game_over |-> 1,
                     last |-> "game_over"]

\* The GameManagers of the room whose loop task is running
RunningLoops == {m \in 1..Len(lobby.managers) :
                    lobby.managers[m].task = "running"}

\* C21 as claimed: at any time at most one game loop is running for the
\* room, so no two loops move the snakes of the same Player objects.
C21_AsClaimed == Cardinality(RunningLoops) <= 1

\* C22: handle_input applied to any reachable state, for the id of a human
\* of the room or an id that is not in the game and for any token, returns
\* the state unchanged when the id is unknown, the snake is dead, the token
\* is no direction or the token is the opposite of the snake's current
\* direction; otherwise it returns the state with the token as the snake's
\* next_direction and nothing else changed (direction, body, score and alive
\* included).  A step between two updates changes the state in no other
\* way, and the next update makes the buffered direction the direction of
\* a human snake that is alive after it.
C22_InputEffect ==
    /\ [](\A player_id \in InputIds(room), token \in InputTokens :
            LET g == HandleInputState(state, player_id, token)
                rejected ==
                    \/ player_id \notin PlayerIds(state)
                    \/ ~state.players[player_id].alive
                    \/ token \notin Directions
                    \/ token = Opposite(state.players[player_id].direction)
            IN  IF rejected
                THEN g = state
                ELSE /\ g = [state EXCEPT
                               !.players[player_id].next_direction = token]
                     /\ g.players[player_id].direction
                            = state.players[player_id].direction
                     /\ g.players[player_id].body
                            = state.players[player_id].body
                     /\ g.players[player_id].score
                            = state.players[player_id].score
                     /\ g.players[player_id].alive)
    /\ [][/\ (pc' = pc /\ now' = now /\ state' # state)
             => \E p \in PlayerIds(state) :
                   /\ state.players[p].alive
                   /\ ~state.players[p].is_ai
                   /\ state'.players[p].next_direction
                          # Opposite(state.players[p].direction)
                   /\ state' = [state EXCEPT !.players[p].next_direction =
                                    state'.players[p].next_direction]
          /\ \A p \in PlayerIds(state) :
                (/\ state'.elapsed_time
                        = state.elapsed_time + state.current_speed
                 /\ ~state.players[p].is_ai
                 /\ state.players[p].alive
                 /\ state'.players[p].alive)
                => state'.players[p].direction
                       = state.players[p].next_direction]_vars

\* C22 witness: a living human snake that still lies straight behind its
\* head, heading right, with the turn "up" buffered for the next update
C22_Witness ==
    \E p \in PlayerIds(state) :
        /\ ~state.players[p].is_ai
        /\ state.players[p].alive
        /\ state.players[p].direction = "right"
        /\ state.players[p].next_direction = "up"
        /\ state.players[p].body[1][2] = state.players[p].body[2][2]
        /\ state.players[p].body[1][1] = state.players[p].body[2][1] + 1
        /\ state.elapsed_time > 0

\* C23 as claimed: no two players of a game, human or AI, have the same
\* quadrant.
C23_AsClaimed ==
    \A p, q \in PlayerIds(state) :
        p # q => state.players[p].quadrant # state.players[q].quadrant

\* The cells of the spawn-safe zone of a quadrant: safe_zone of
\* _generate_walls_random as _wall_overlaps_zone reads it
SafeZoneCells(b) ==
    LET zone == SafeZone(b)
    IN  {<<x, y>> : x \in zone[1]..(zone[3] - 1), y \in zone[2]..(zone[4] - 1)}

\* C24 as claimed: no wall of any quadrant has a cell in the spawn-safe zone
\* (center_x - 3 .. center_x + 2, center_y - 3 .. center_y + 2) of the
\* quadrant.
C24_AsClaimed ==
    \A q \in DOMAIN state.walls :
        WallPositions(state.walls[q])
            \cap SafeZoneCells(state.quadrant_bounds[q]) = {}

\* C25 as claimed: a game of two snakes is not over while less than 1.0 s
\* of simulated time has elapsed.
C25_AsClaimed ==
    (Cardinality(PlayerIds(state)) = 2 /\ state.game_over)
    => state.elapsed_time >= 1000000

\* The cell a snake's head moves to when it takes direction d
HeadAfter(pl, d) ==
    <<pl.body[1][1] + DirVector(d)[1], pl.body[1][2] + DirVector(d)[2]>>

\* The new head is outside the quadrant, on a wall or on a cell of the
\* snake's own body other than its tail
FatalCell(g, p, c) ==
    LET pl == g.players[p]
    IN  \/ ~Contains(g.quadrant_bounds[pl.quadrant], c)
        \/ c \in WallPositions(g.walls[pl.quadrant])
        \/ \E i \in 1..(Len(pl.body) - 1) : pl.body[i] = c

\* C26: _move_snake applied to a living snake of any reachable state, for
\* every direction its next_direction can hold: when the new head is
\* outside the quadrant, on a wall or on an own body cell other than the
\* tail, the snake is dead afterwards, death_count is one higher,
\* alive_count one lower, and body, score and all foods are as before; in
\* every other case, the cell of the own tail included, the snake is alive
\* afterwards with its head on the new cell.  In every update alive_count
\* falls by the number of snakes that died in it.
C26_FatalMoves ==
    /\ [](\A p \in PlayerIds(state) :
            state.players[p].alive =>
              \A d \in Directions \ {Opposite(state.players[p].direction)} :
                LET pl == state.players[p]
                    g == [state EXCEPT !.players[p].next_direction = d]
                    c == HeadAfter(pl, d)
                IN  \A g1 \in MoveSnake(g, p, now) :
                      IF FatalCell(state, p, c)
                      THEN /\ ~g1.players[p].alive
                           /\ g1.players[p].death_count = pl.death_count + 1
                           /\ g1.alive_count = state.alive_count - 1
                           /\ g1.players[p].body = pl.body
                           /\ g1.players[p].score = pl.score
                           /\ g1.foods = state.foods
                      ELSE /\ g1.players[p].alive
                           /\ g1.players[p].body[1] = c
                           /\ g1.players[p].death_count = pl.death_count
                           /\ g1.alive_count = state.alive_count)
    /\ [][state'.elapsed_time = state.elapsed_time + state.current_speed
          => state'.alive_count =
                state.alive_count
                - Cardinality({p \in PlayerIds(state) :
                                  /\ state.players[p].alive
                                  /\ ~state'.players[p].alive})]_vars

\* C26 witness: a snake of four segments that lies in a square and has
\* just moved its head onto the cell its tail left in the same move
C26_Witness ==
    \E p \in PlayerIds(state) :
        LET pl == state.players[p]
        IN  /\ pl.alive
            /\ Len(pl.body) = 4
            /\ Manhattan(pl.body[1], pl.body[4]) = 1
            /\ state.elapsed_time = 3 * state.current_speed
            /\ pl.combo_timer < COMBO_WINDOW
            /\ pl.combo_timer > 0

\* The foods of the snake's quadrant that a head on cell c strikes: those
\* not in their hit-recovery window with c among their cells
Strikable(g, p, c) ==
    LET q == g.players[p].quadrant
        foods == IF q \in DOMAIN g.foods THEN g.foods[q] ELSE <<>>
    IN  {i \in 1..Len(foods) :
            foods[i].hit_recovery = 0 /\ c \in FoodCells(foods[i])}

\* C27: a move that does not kill the snake puts the new head in front of
\* the body and drops the tail if the head struck no strikable food (the
\* length, the foods and the score stay as they were), and keeps the tail
\* if it struck one (the length grows by exactly 1), after a partial hit
\* (the food stays with one health point less and its recovery window
\* begun) as well as after a finishing hit (the food is removed).  Exactly
\* one food is struck by such a move: every other food of the quadrant is
\* left as it was.  Over a whole tick the body of a snake that is alive
\* before and after it grows by at most 1, and outside Survival it never
\* shrinks.
C27_Growth ==
    /\ [](\A p \in PlayerIds(state) : state.players[p].alive =>
            \A d \in Directions \ {Opposite(state.players[p].direction)} :
              LET pl == state.players[p]
                  q == pl.quadrant
                  g == [state EXCEPT !.players[p].next_direction = d]
                  c == HeadAfter(pl, d)
                  struck == Strikable(state, p, c)
              IN  \A g1 \in MoveSnake(g, p, now) :
                    g1.players[p].alive =>
                      IF struck = {}
                      THEN /\ g1.players[p].body
                                = <<c>> \o SubSeq(pl.body, 1, Len(pl.body) - 1)
                           /\ Len(g1.players[p].body) = Len(pl.body)
                           /\ g1.foods = state.foods
                           /\ g1.players[p].score = pl.score
                      ELSE /\ g1.players[p].body = <<c>> \o pl.body
                           /\ Len(g1.players[p].body) = Len(pl.body) + 1
                           /\ g1.players[p].score > pl.score
                           /\ \E i \in struck :
                                LET food == state.foods[q][i]
                                IN  IF food.health > 1
                                    THEN /\ Len(g1.foods[q]) = Len(state.foods[q])
                                         /\ g1.foods[q][i].health = food.health - 1
                                         /\ g1.foods[q][i].hit_recovery > 0
                                         /\ \A j \in 1..Len(state.foods[q]) :
                                              j # i => g1.foods[q][j]
                                                           = state.foods[q][j]
                                    ELSE SubSeq(g1.foods[q], 1,
                                                Len(state.foods[q]) - 1)
                                             = RemoveAt(state.foods[q], i)
                           /\ \A r \in DOMAIN state.foods :
                                r # q => g1.foods[r] = state.foods[r])
    /\ [][state'.elapsed_time = state.elapsed_time + state.current_speed
          => \A p \in PlayerIds(state) :
                (state.players[p].alive /\ state'.players[p].alive)
                => /\ Len(state'.players[p].body)
                        <= Len(state.players[p].body) + 1
                   /\ state.mode # "survival"
                        => Len(state'.players[p].body)
                               >= Len(state.players[p].body)]_vars

\* A snake that has grown to length 4 by a partial hit: its head is on a
\* cell of a food that has lost a health point and is in its recovery window
C27_Witness ==
    \E p \in PlayerIds(state) :
        LET pl == state.players[p]
        IN  /\ pl.alive
            /\ Len(pl.body) = 4
            /\ pl.score > 0
            /\ pl.combo = 0
            /\ \E i \in 1..Len(state.foods[pl.quadrant]) :
                 LET food == state.foods[pl.quadrant][i]
                 IN  /\ food.health < ANIMAL_TYPES[food.kind].health
                     /\ food.hit_recovery > 0
                     /\ pl.body[1] \in FoodCells(food)

\* C28: in every mode the body of a living snake has at least the minimum
\* length 3 (so it is never empty).  _apply_tail_decay removes exactly the
\* tail segment of a living snake whose body is longer than 3 and changes
\* nothing else, and kills a living snake whose body is not longer than 3,
\* leaving the body as it is.  A tick shortens the body of a snake that is
\* alive before and after it only in Survival, only by one segment, and
\* only when the body was longer than 3 and the decay timer ran out.
C28_MinLength ==
    /\ [](\A p \in PlayerIds(state) :
            /\ state.players[p].alive
                 => Len(state.players[p].body) >= DECAY_MIN_LENGTH
            /\ Len(state.players[p].body) >= DECAY_MIN_LENGTH
            /\ state.players[p].alive =>
                 LET pl == state.players[p]
                     g1 == ApplyTailDecay(state, p, now)
                 IN  IF Len(pl.body) > DECAY_MIN_LENGTH
                     THEN g1 = [state EXCEPT !.players[p].body =
                                   SubSeq(pl.body, 1, Len(pl.body) - 1)]
                     ELSE /\ ~g1.players[p].alive
                          /\ g1.players[p].body = pl.body
                          /\ g1.players[p].death_count = pl.death_count + 1
                          /\ g1.alive_count = state.alive_count - 1)
    /\ [][state'.elapsed_time = state.elapsed_time + state.current_speed
          => \A p \in PlayerIds(state) :
                ( /\ state.players[p].alive /\ state'.players[p].alive
                  /\ Len(state'.players[p].body) < Len(state.players[p].body) )
                => /\ state.mode = "survival"
                   /\ Len(state'.players[p].body)
                         = Len(state.players[p].body) - 1
                   /\ Len(state.players[p].body) > DECAY_MIN_LENGTH
                   /\ state.players[p].decay_timer - state.current_speed <= 0
                   /\ state'.players[p].decay_timer
                         = GetSurvivalDecayInterval(state'.elapsed_time)]_vars

\* A living Survival snake that ate, lost the segment again when its decay
\* timer ran out, and is back at the minimum length with the timer rearmed
C28_Witness ==
    /\ state.mode = "survival"
    /\ \E p \in PlayerIds(state) :
          /\ state.players[p].alive
          /\ state.players[p].score > 0
          /\ Len(state.players[p].body) = DECAY_MIN_LENGTH
          /\ state.players[p].decay_timer
                = GetSurvivalDecayInterval(state.elapsed_time)

\* Speeds, game times and scores at which the speed policies are evaluated
SpeedSamples == {50000, 52631, 52632, 85000, 100000}
TimeSamples == {0, 15000000, 60000000, 300000000}
ScoreSamples == {0, 499, 500, 6500, 7000}

\* current_speed after the mode update of a High-Score or Survival game
\* that has speed s at game time e
PolicySpeed(g, s, e) ==
    LET h == [g EXCEPT !.current_speed = s, !.elapsed_time = e]
    IN  IF g.mode = "survival"
        THEN UpdateSurvival(h, s, now).current_speed
        ELSE UpdateHighScore(h, s).current_speed

\* current_speed after the mode update of a Single-Player game whose last
\* player has score sc
ScoreSpeed(g, sc) ==
    LET last == g.order[Len(g.order)]
    IN  UpdateSinglePlayer([g EXCEPT !.players[last].score = sc],
                           g.current_speed).current_speed

\* C29: in every mode current_speed stays within [base_speed / 2,
\* base_speed] = [50 ms, 100 ms], so it is strictly positive, and no step of
\* a game raises it.  The speed policies keep it so from every speed of that
\* range: the High-Score and Survival updates leave a speed that is at
\* least 50 ms and at most the speed before, at every game time, and the
\* Single-Player update leaves a speed within the range that does not grow
\* with the score (which never falls).
C29_SpeedRange ==
    /\ [](/\ BASE_SPEED \div 2 = MIN_SPEED
          /\ MIN_SPEED > 0
          /\ state.current_speed >= MIN_SPEED
          /\ state.current_speed <= BASE_SPEED
          /\ state.mode # "single_player"
               => \A s \in SpeedSamples, e \in TimeSamples :
                     LET after == PolicySpeed(state, s, e)
                     IN  after >= MIN_SPEED /\ after <= s
          /\ state.mode = "single_player"
               => LET after == [sc \in ScoreSamples |->
                                   ScoreSpeed(state, sc)]
                  IN  \A sc1 \in ScoreSamples, sc2 \in ScoreSamples :
                         /\ after[sc1] >= MIN_SPEED
                         /\ after[sc1] <= BASE_SPEED
                         /\ sc1 <= sc2 => after[sc2] <= after[sc1])
    /\ [][/\ state'.current_speed <= state.current_speed
          /\ \A p \in PlayerIds(state) :
                state'.players[p].score >= state.players[p].score]_vars

\* A High-Score game that goes on after its first speed step, at 85 ms
C29_Witness ==
    /\ state.mode = "high_score"
    /\ state.running /\ ~state.game_over
    /\ state.elapsed_time > HS_SPEED_INTERVAL
    /\ state.current_speed = 85000

\* The accumulators the loop can hold before a drain: less than one move
\* interval left by the drain before, plus the tick just added
DrainSamples(g) ==
    {3 * g.current_speed - 1, 3 * g.current_speed + TICK_RATE - 1}

\* C30: the inner loop of run_game_loop ends (the pairs it can leave are
\* computed in every reachable state), and leaves an accumulator of at
\* least 0 and less than one move interval at the speed the drain leaves,
\* which no drain raises; so 0 <= move_accumulator < current_speed holds in
\* every state of the loop, also after the drain in which the mode policy
\* lowered current_speed.  A drain runs at most one tick, since a poll adds
\* a third of the shortest move interval.
C30_Drain ==
    /\ [](/\ move_accumulator >= 0
          /\ move_accumulator < 3 * state.current_speed
          /\ \A acc \in DrainSamples(state) \cup {move_accumulator + TICK_RATE} :
                \A r \in MoveLoop(state, acc, now) :
                   /\ r[2] >= 0
                   /\ r[2] < 3 * r[1].current_speed
                   /\ r[2] <= acc
                   /\ r[1].current_speed <= state.current_speed
                   /\ r[2] \in {acc, acc - 3 * r[1].current_speed})
    /\ [][state'.elapsed_time \in {state.elapsed_time,
                                   state.elapsed_time + state.current_speed}]_vars

\* The state after the drain in which the High-Score policy lowered the
\* speed from 100 ms to 85 ms: the tick ran for an accumulator of 100 ms and
\* took off 85 ms, and 15 ms are left
C30_Witness ==
    /\ state.mode = "high_score"
    /\ pc = "respawn"
    /\ state.elapsed_time = HS_SPEED_INTERVAL
    /\ state.current_speed = 85000
    /\ move_accumulator = 3 * (BASE_SPEED - 85000)

\* C31: a snake that is dead becomes alive again only in High-Score mode,
\* only in the respawn pass of the loop, only when the wall clock is at
\* least respawn_delay past the player's death_time, and then with a body
\* of 3 cells, combo 0, state PLAYING, its death_count as it was, and
\* alive_count raised by the number of snakes respawned in that pass.  A
\* snake leaves the living only by a death, which raises death_count by
\* one, so there is at most one respawn per death.  In Survival and
\* Single-Player no dead snake becomes alive.
C31_Respawn ==
    [][/\ \A p \in PlayerIds(state) :
            /\ (~state.players[p].alive /\ state'.players[p].alive)
                 => /\ state.mode = "high_score"
                    /\ pc = "respawn"
                    /\ state.players[p].state = "dead"
                    /\ now - state.players[p].death_time
                          >= 3 * state.players[p].respawn_delay
                    /\ Len(state'.players[p].body) = 3
                    /\ Cardinality(SeqToSet(state'.players[p].body)) = 3
                    /\ state'.players[p].combo = 0
                    /\ state'.players[p].state = "playing"
                    /\ state'.players[p].death_count
                          = state.players[p].death_count
                    /\ state'.players[p].death_count >= 1
            /\ (state.players[p].alive /\ ~state'.players[p].alive)
                 => /\ state'.players[p].death_count
                          = state.players[p].death_count + 1
                    /\ state'.players[p].state = "dead"
                    /\ state'.players[p].death_time = now
       /\ pc = "respawn"
            => state'.alive_count
                  = state.alive_count
                    + Cardinality({p \in PlayerIds(state) :
                                      /\ ~state.players[p].alive
                                      /\ state'.players[p].alive})]_vars

\* A High-Score player back on the map after its second death: alive with
\* 3 cells, at least its respawn delay of 3 s after the death
C31_Witness ==
    /\ state.mode = "high_score"
    /\ \E p \in PlayerIds(state) :
          /\ state.players[p].alive
          /\ state.players[p].state = "playing"
          /\ state.players[p].death_count = 2
          /\ state.players[p].respawn_delay = 3000000
          /\ Len(state.players[p].body) = 3
          /\ now - state.players[p].death_time
                >= 3 * state.players[p].respawn_delay

\* C32: a room set to Survival with at most one player in all (humans and
\* AI players) is played as Single-Player; a game in Survival mode has at
\* least two players, and after setup_game all of them are alive,
\* alive_count is their number and the game runs.  The game is over after a
\* tick only if alive_count fell to 1 or less by a death of that tick.
C32_SurvivalPlayers ==
    /\ [](/\ (room.game_mode = "survival"
              /\ Len(room.humans) + room.ai_count <= 1)
                => state.mode = "single_player"
          /\ state.mode = "survival"
                => /\ room.game_mode = "survival"
                   /\ Len(state.order) >= 2
                   /\ Len(state.order) = Len(room.humans) + room.ai_count
          /\ (state.mode = "survival" /\ state.elapsed_time = 0)
                => /\ \A p \in PlayerIds(state) : state.players[p].alive
                   /\ state.alive_count = Len(state.order)
                   /\ state.alive_count >= 2
                   /\ state.running /\ ~state.game_over)
    /\ [][(state.mode = "survival" /\ ~state.game_over /\ state'.game_over)
          => /\ state'.alive_count <= 1
             /\ state'.alive_count < state.alive_count
             /\ \E p \in PlayerIds(state) :
                   state.players[p].alive /\ ~state'.players[p].alive]_vars

\* A room set to Survival with one human and no AI player, played as
\* Single-Player: its first tick is over and the game goes on
C32_Witness ==
    /\ room.game_mode = "survival"
    /\ Len(room.humans) + room.ai_count = 1
    /\ state.mode = "single_player"
    /\ state.elapsed_time = state.current_speed
    /\ state.alive_count = 1
    /\ state.running /\ ~state.game_over

\* The state after k calls of _shrink_arena
RECURSIVE Shrunk(_, _)
Shrunk(g, k) ==
    IF k = 0 THEN g ELSE Shrunk(ShrinkArena(g, QuadrantOrder(g), now), k - 1)

\* The number of players whose snake is alive
LivingCount(g) == Cardinality({p \in PlayerIds(g) : g.players[p].alive})

\* C33: in every reachable state alive_count is the number of players
\* whose snake is alive, it is at least 0 and at most the number of players,
\* through deaths at the border, on walls and on the own body, starvation
\* and High-Score respawns; and it is so after one, two and three shrinks
\* of the arena of every reachable Survival state.
C33_AliveCount ==
    [](/\ state.alive_count = LivingCount(state)
       /\ state.alive_count >= 0
       /\ state.alive_count <= Len(state.order)
       /\ state.mode = "survival"
            => \A k \in 1..3 :
                  LET g == Shrunk(state, k)
                  IN  /\ g.alive_count = LivingCount(g)
                      /\ g.alive_count >= 0
                      /\ g.alive_count <= state.alive_count)

\* A Survival game of three with the human dead at the border and both AI
\* players alive after their first tail decay
C33_Witness ==
    /\ state.mode = "survival"
    /\ Len(state.order) = 3
    /\ state.alive_count = 2
    /\ \E p \in PlayerIds(state) :
          ~state.players[p].alive /\ state.players[p].death_count = 1
    /\ \E p \in PlayerIds(state) :
          /\ state.players[p].alive
          /\ state.players[p].score > 0
          /\ Len(state.players[p].body) = DECAY_MIN_LENGTH

\* C34, as claimed: the body of a living snake holds no cell twice
C34_AsClaimed ==
    \A p \in PlayerIds(state) :
        state.players[p].alive
            => Cardinality(SeqToSet(state.players[p].body))
                   = Len(state.players[p].body)


\* C35, as claimed: every player's quadrant is one of the quadrants that
\* setup_game created bounds for, whatever joins and leaves came before
C35_AsClaimed ==
    \A p \in PlayerIds(state) :
        state.players[p].quadrant \in DOMAIN state.quadrant_bounds


\* C36, as claimed: a poll of a running, unpaused game adds to elapsed_time
\* what it takes from move_accumulator (the accumulator holds thirds of a
\* microsecond, and a poll first adds one tick_rate to it)
C36_AsClaimed ==
    [][(/\ pc = "run"
        /\ state.running /\ ~state.paused /\ ~state.game_over)
          => 3 * (state'.elapsed_time - state.elapsed_time)
                = move_accumulator + TICK_RATE - move_accumulator']_vars


\* State h is state g but for the buffered directions of the players
SameButInput(g, h) ==
    /\ DOMAIN h.players = DOMAIN g.players
    /\ [h EXCEPT !.players =
           [p \in DOMAIN h.players |->
               [h.players[p] EXCEPT
                   !.next_direction = g.players[p].next_direction]]] = g

\* C37, as claimed: while the game stays paused nothing of the simulation
\* state changes but a buffered next_direction
C37_AsClaimed ==
    [][(state.paused /\ state'.paused) => SameButInput(state, state')]_vars


\* C38: every unpaused Survival game ends.  In the games played to their end
\* game_over is eventually set, whatever the human steers and wherever the
\* foods fall; next_shrink_time is never more than one shrink interval ahead
\* of elapsed_time; and MaxShrinks shrinks of any reachable Survival state
\* leave bounds without a cell and no living snake, so that the win check
\* ends the game.
C38_Terminates ==
    /\ []((state.mode = "survival") => <>state.game_over)
    /\ [](state.mode = "survival"
            => /\ state.next_shrink_time <= state.elapsed_time + SHRINK_INTERVAL
               /\ LET g == Shrunk(state, MaxShrinks)
                  IN  /\ \A q \in DOMAIN g.quadrant_bounds :
                            BoundsCells(g.quadrant_bounds[q]) = {}
                      /\ LivingCount(g) = 0
                      /\ g.alive_count = 0
                      /\ CheckWinConditions(g).game_over)

\* A Survival game that tail decay ended: the steering human and the AI
\* player were both alive after 5.9 s, and the game is over
C38_Witness ==
    /\ state.mode = "survival"
    /\ state.game_over
    /\ state.elapsed_time >= 6000000


\* AI player p of state g decides in the AI pass at the wall-clock time now
AiDue(g, p) ==
    /\ g.players[p].is_ai /\ g.players[p].alive
    /\ g.players[p].quadrant \in DOMAIN g.quadrant_bounds
    /\ now - g.players[p].ai_last_decision
          >= 3 * ReactionTime(g.players[p].ai_difficulty)

\* The directions of _ai_safe_dirs for player p of state g
SafeNow(g, p) ==
    AiSafeDirs(g, p, g.quadrant_bounds[g.players[p].quadrant],
               AiBuildBlocked(g, p))

\* State g with walls of one cell on the cells W of quadrant q
Walled(g, q, W) ==
    [g EXCEPT !.walls[q] = @ \cup {Wall(c[1], c[2], 1, 1) : c \in W}]

\* The first wall-clock time from now on at which player p of g decides
DueTime(g, p) ==
    Max(now, g.players[p].ai_last_decision
                + 3 * ReactionTime(g.players[p].ai_difficulty))

\* C39: in the update of every reachable running state, with any of the
\* cells around its head walled, an AI player that decides picks one of its
\* safe directions when there is one (no reversal, the next cell inside the
\* bounds and not on a wall, on its own body without the tail or on a living
\* snake of its quadrant) and then survives its move of that update; with
\* no safe direction it keeps its direction.
C39_AiSafety ==
    (state.running /\ ~state.paused /\ ~state.game_over)
      => LET mid == ModeUpdate(state, state.current_speed, now)
         IN  \A p \in PlayerIds(mid) :
                (/\ mid.players[p].is_ai /\ mid.players[p].alive
                 /\ mid.players[p].quadrant \in DOMAIN mid.quadrant_bounds)
                  => \A W \in SUBSET {Step(mid.players[p].body[1], d) :
                                         d \in Directions} :
                        LET g == Walled(mid, mid.players[p].quadrant, W)
                            t == DueTime(g, p)
                        IN  \A g1 \in UpdateAiSnake(g, p, t) :
                               /\ g1.players[p].ai_last_decision = t
                               /\ IF SafeNow(g, p) # {}
                                  THEN /\ g1.players[p].next_direction
                                             \in SafeNow(g, p)
                                       /\ \A g2 \in MoveSnake(g1, p, t) :
                                             g2.players[p].alive
                                  ELSE g1.players[p].next_direction
                                           = g.players[p].direction

\* An AI player is about to decide with a wall cell or the border straight
\* ahead and a safe direction to turn to
C39_Witness ==
    /\ state.running /\ ~state.game_over
    /\ \E p \in PlayerIds(state) :
          LET g == ModeUpdate(state, state.current_speed, now)
          IN  /\ AiDue(g, p)
              /\ SafeNow(g, p) # {}
              /\ g.players[p].direction \notin SafeNow(g, p)


\* In state g the head of every living snake whose quadrant has bounds is
\* inside the bounds and on no wall cell
HeadsInside(g) ==
    \A p \in PlayerIds(g) :
        (g.players[p].alive /\ g.players[p].quadrant \in DOMAIN g.quadrant_bounds)
          => /\ Contains(g.quadrant_bounds[g.players[p].quadrant],
                         g.players[p].body[1])
             /\ g.players[p].body[1]
                   \notin GetWallPositions(g, g.players[p].quadrant)

\* C40: the heads are inside in every reachable state (after setup_game and
\* after every update), after the death and the respawn of any snake of a
\* High-Score game between the walls and bounds that setup_game left (no
\* High-Score game changes them later), and after one to MaxShrinks shrinks
\* of a reachable Survival state.
C40_HeadInside ==
    /\ HeadsInside(state)
    /\ (state.mode = "high_score" /\ iterations = 0 /\ pc = "run"
          /\ \A p \in PlayerIds(state) :
                state.players[p].next_direction = state.players[p].direction)
          => \A p \in PlayerIds(state) :
                HeadsInside(RespawnSnake(KillSnake(state, p, now), p))
    /\ state.mode = "survival"
          => \A k \in 1..MaxShrinks : HeadsInside(Shrunk(state, k))


\* A snake has moved and is alive with a wall cell next to its head
C40_Witness ==
    /\ state.elapsed_time > 0
    /\ \E p \in PlayerIds(state) :
          /\ state.players[p].alive
          /\ state.players[p].quadrant \in DOMAIN state.quadrant_bounds
          /\ \E d \in Directions :
                Step(state.players[p].body[1], d)
                   \in GetWallPositions(state, state.players[p].quadrant)

=============================================================================
